---- MODULE Spec2Model ----
(***************************************************************************)
(* Model of the liquidatoor borrower cache (pkg/liquidatoor/cache.go) and  *)
(* of the shortfall scan built on it (Liquidatoor.ShortfallCheck).         *)
(*                                                                         *)
(* Two goroutines share the cache: BorrowerCache.Init runs run() in a loop *)
(* and the main goroutine runs ShortfallCheck on each trigger.  Every      *)
(* network round trip is a suspension point and therefore a separate step. *)
(* Slices of market addresses live in assetHeap and are held by reference, *)
(* as Go slices are.                                                       *)
(***************************************************************************)
EXTENDS Integers, Sequences, FiniteSets, TLC

VARIABLES
    cacheBorrowers,     \* BorrowerCache.borrowers, the committed snapshot
    lockWriter,         \* BorrowerCache.lock held exclusively
    lockReaders,        \* number of holders of the read side of the lock
    assetHeap,          \* backing arrays of the []common.Address slices
    runPc,              \* position of the Init goroutine inside run()
    runBorrowers,       \* run(): local borrowers (fetched address list)
    newBorrowers,       \* run(): local newBorrowers
    runErr,             \* outcome of the last run(): "none", "nil", "error"
    runCount,           \* number of run() invocations started so far
    runData,            \* run(): resp.ReturnData, decoded
    commits,            \* number of run() invocations that returned nil
    borrowMarkets,      \* Liquidatoor.BorrowMarkets (keys)
    lendMarkets,        \* Liquidatoor.LendMarkets (keys)
    underlyingInfo,     \* Liquidatoor.underlyingInfo: decimals per market
    newPc,              \* New(): "new" before it ran, then "done" or "failed"
    chain,              \* what the ledger answers to the calls of New()
    transactions,       \* transactions submitted with Liquidatoor.TxOpts
    sub,                \* SubscribeToBlocks: the header subscription
    height,             \* number of the newest block of the chain
    headers,            \* block numbers received from the headers channel
    scanPc,             \* position of the main goroutine in ShortfallCheck
    readLen,            \* Read(): length of the slice made before locking
    readSeen,           \* snapshots that were committed while Read() ran
    borrowers,          \* ShortfallCheck: local borrowers (result of Read)
    resp,               \* ShortfallCheck: resp.ReturnData, decoded
    underwaterAccounts, \* ShortfallCheck: local underwaterAccounts
    resolveIdx,         \* ShortfallCheck: position of the getAssets loop
    resolved,           \* getAssets invocations of the current cycle
    queries,            \* balance calls getAssets made in the current cycle
    lines,              \* balance lines getAssets printed in the current cycle
    balance,            \* Balance.String: the receiver b
    rendered,           \* Balance.String: how the call ended
    aggregateCalls,     \* Aggregate calls issued by the current scan cycle
    scanErr,            \* outcome of the last scan: "none", "nil", "error"
    crashed             \* the process died of a runtime panic

vars == <<cacheBorrowers, lockWriter, lockReaders, assetHeap, runPc,
          runBorrowers, newBorrowers, runErr, runCount, scanPc, readLen,
          readSeen, borrowers, resp, underwaterAccounts, resolveIdx, resolved,
          aggregateCalls, scanErr, crashed, runData, commits, borrowMarkets,
          lendMarkets, underlyingInfo, queries, lines, balance, rendered,
          newPc, chain, transactions, sub, height, headers>>

cacheVars == <<cacheBorrowers, lockWriter, assetHeap, runPc, runBorrowers,
               newBorrowers, runErr, runCount, runData, commits>>

logVars == <<queries, lines>>

scanVars == <<scanPc, readLen, borrowers, resp, underwaterAccounts,
              resolveIdx, resolved, aggregateCalls, scanErr, logVars>>

\* Written by New() only.
cfgVars == <<borrowMarkets, lendMarkets, underlyingInfo>>

\* One call of Balance.String taken on its own.
fmtVars == <<balance, rendered>>

\* The header subscription of SubscribeToBlocks and the chain it follows.
subVars == <<sub, height, headers>>

\* The progress of New() and the ledger it reads; the subscription made
\* after it.
startVars == <<newPc, chain, subVars>>

\* Is a Read() between its first statement and its return?
Reading == scanPc \in {"sized", "rlocked"}

----------------------------------------------------------------------------
(* Bounds *)

NumAddresses == 2       \* borrower addresses are 1..NumAddresses
MaxBorrowers == 2       \* longest borrower list the comptroller returns
NumMarkets == 1         \* market addresses are 1..NumMarkets
MaxAssets == 1          \* longest market list getAssetsIn returns
MaxRuns == 2            \* run() invocations of the Init loop that are explored
MaxAmount == 2          \* liquidity and shortfall values are 0..MaxAmount
MaxRankLen == 7         \* snapshot length in the ranking specification
MaxRankAmount == 2      \* shortfalls are 0..MaxRankAmount in the ranking specification
NumScanMarkets == 2     \* market addresses of the resolving specification
MaxScanAssets == 2      \* longest market list in the resolving specification
MaxScanBorrowers == 2   \* snapshot length in the resolving specification
MaxFill == 19           \* digits appended to a raw amount in the formatting specification
MaxBlocks == 2          \* blocks the chain produces in the block-driven specification
MaxSubErrs == 2         \* receives from sub.Err() in the block-driven specification

Addresses == 1..NumAddresses
Markets == 1..NumMarkets

ZeroAddress == 0        \* common.Address{}
NilRef == 0             \* a nil slice
NilShortfall == -1      \* Borrower.Shortfall == nil

----------------------------------------------------------------------------
(* Data *)

\* type Borrower struct { Address; Assets; Shortfall }
Borrower(address, assets, shortfall) ==
    [Address |-> address, Assets |-> assets, Shortfall |-> shortfall]

\* The zero value of Borrower, the content of make([]Borrower, n).
ZeroBorrower == Borrower(ZeroAddress, NilRef, NilShortfall)

\* The elements of a slice held by reference.
Deref(heap, ref) == IF ref = NilRef THEN <<>> ELSE heap[ref]

\* What a holder of a []Borrower observes: addresses and market lists.
View(heap, bs) ==
    [i \in 1..Len(bs) |->
        [Address |-> bs[i].Address, Markets |-> Deref(heap, bs[i].Assets),
         Shortfall |-> bs[i].Shortfall]]

RECURSIVE SeqsUpTo(_, _)
SeqsUpTo(S, n) ==
    IF n = 0 THEN {<<>>}
    ELSE LET shorter == SeqsUpTo(S, n - 1)
         IN  shorter \cup {Append(s, x) : s \in shorter, x \in S}

IsInjective(s) == \A i, j \in 1..Len(s) : s[i] = s[j] => i = j

\* Borrower lists getAllBorrowers can return: distinct accounts.
BorrowerLists == {s \in SeqsUpTo(Addresses, MaxBorrowers) : IsInjective(s)}

\* Market lists getAssetsIn can return.
AssetLists == SeqsUpTo(Markets, MaxAssets)

----------------------------------------------------------------------------
(* State after New(): NewBorrowerCache made an empty snapshot and the Init *)
(* goroutine has been started but has not yet called run().               *)

\* What New() can leave in the market maps when the comptroller lists one of
\* the sets of markets in L and the underlying tokens have decimals from D:
\* every listed market is in LendMarkets and has its underlyingInfo, the
\* ones with borrows are in BorrowMarkets as well.
MarketMaps(L, D) ==
    UNION {[LendMarkets : {lend}, BorrowMarkets : SUBSET lend,
            underlyingInfo : [lend -> D]] : lend \in L}

\* big.Int values are sequences of decimal digits, most significant first;
\* zero is <<0>>.
zero == <<0>>

\* The elements of a set of addresses in ascending order.
RECURSIVE Ascending(_)
Ascending(S) ==
    IF S = {} THEN <<>>
    ELSE LET least == CHOOSE x \in S : \A y \in S : x <= y
         IN  <<least>> \o Ascending(S \ {least})

\* A ledger: the markets the comptroller lists (GetAllMarkets), the total
\* borrows of each (TotalBorrows) and the decimals of its underlying token.
Ledger(markets, totalBorrows, decimals) ==
    [markets |-> markets, totalBorrows |-> totalBorrows, decimals |-> decimals]

\* The subscription: state is "none" when main runs ShortfallCheck on a
\* timer and never subscribes, "new" before SubscribeNewHead, "exited" when
\* it failed, "live" while headers are forwarded, "failed" once an error is
\* in the channel of sub.Err() and "dead" once the loop has received it;
\* next is the number of the next block to forward, at the height at which
\* the subscription failed, errs the receives from sub.Err() so far.
Subscription(state, next, at, errs) ==
    [state |-> state, next |-> next, at |-> at, errs |-> errs]

NoSubscription == Subscription("none", 0, 0, 0)

\* New() has filled the market maps with one of the outcomes in M, from a
\* ledger that lists those markets, no transaction has been sent, and main
\* goes on with one of the subscriptions in S.
Started(M, S) ==
    \E m \in M :
        /\ lendMarkets = m.LendMarkets
        /\ borrowMarkets = m.BorrowMarkets
        /\ underlyingInfo = m.underlyingInfo
        /\ newPc = "done"
        /\ chain = Ledger(Ascending(m.LendMarkets),
                          [a \in m.LendMarkets |->
                              IF a \in m.BorrowMarkets THEN <<1>> ELSE zero],
                          m.underlyingInfo)
        /\ transactions = <<>>
        /\ sub \in S
        /\ height = 0
        /\ headers = <<>>

\* The same for the main that runs ShortfallCheck on a timer.
NewMarkets(M) == Started(M, {NoSubscription})

\* Market maps explored while the cache is refreshed concurrently: every
\* market is listed at start-up, has borrows, and has 18 decimals.
ConcurrentMarkets ==
    {m \in MarketMaps({Markets}, {18}) : m.BorrowMarkets = m.LendMarkets}

Balance(value, decimals) == [value |-> value, decimals |-> decimals]

ZeroBalance == Balance(zero, 0)

NotRendered == [done |-> FALSE, panic |-> FALSE, text |-> <<>>]

\* Variant of Init in which NewBorrowerCache leaves an entry in c.borrowers.
Init_Prefilled ==
    /\ cacheBorrowers = <<ZeroBorrower>>
    /\ lockWriter = FALSE
    /\ lockReaders = 0
    /\ assetHeap = <<>>
    /\ runPc = "idle"
    /\ runBorrowers = <<>>
    /\ newBorrowers = <<>>
    /\ runErr = "none"
    /\ runCount = 0
    /\ scanPc = "idle"
    /\ readLen = 0
    /\ readSeen = {}
    /\ borrowers = <<>>
    /\ resp = <<>>
    /\ underwaterAccounts = <<>>
    /\ resolveIdx = 0
    /\ resolved = <<>>
    /\ aggregateCalls = 0
    /\ scanErr = "none"
    /\ crashed = FALSE
    /\ runData = <<>>
    /\ commits = 0
    /\ NewMarkets(ConcurrentMarkets)
    /\ queries = <<>>
    /\ lines = <<>>
    /\ balance = ZeroBalance
    /\ rendered = NotRendered

\* The state New() leaves: an empty cache, no run() started, no scan started.
Init ==
    /\ cacheBorrowers = <<>>
    /\ lockWriter = FALSE
    /\ lockReaders = 0
    /\ assetHeap = <<>>
    /\ runPc = "idle"
    /\ runBorrowers = <<>>
    /\ newBorrowers = <<>>
    /\ runErr = "none"
    /\ runCount = 0
    /\ scanPc = "idle"
    /\ readLen = 0
    /\ readSeen = {}
    /\ borrowers = <<>>
    /\ resp = <<>>
    /\ underwaterAccounts = <<>>
    /\ resolveIdx = 0
    /\ resolved = <<>>
    /\ aggregateCalls = 0
    /\ scanErr = "none"
    /\ crashed = FALSE
    /\ runData = <<>>
    /\ commits = 0
    /\ NewMarkets(ConcurrentMarkets)
    /\ queries = <<>>
    /\ lines = <<>>
    /\ balance = ZeroBalance
    /\ rendered = NotRendered

----------------------------------------------------------------------------
(* BorrowerCache.Init and BorrowerCache.run *)

\* One getAssetsIn result of the refresh batch: ok is whether
\* method.Outputs.Unpack accepts the return data.
AssetsResults == [ok : {TRUE}, assets : AssetLists] \cup
                 {[ok |-> FALSE, assets |-> <<>>]}

\* Return data of Aggregate for n calls: one entry per call, in call order.
ReturnData(R, n) == {r \in SeqsUpTo(R, n) : Len(r) = n}

\* Variant of UnpackAssets that decodes into the backing arrays already in
\* the heap instead of allocating fresh slices.
RECURSIVE UnpackAssets_Reuse(_, _, _, _, _)
UnpackAssets_Reuse(bs, data, i, heap, acc) ==
    IF i > Len(data) THEN [err |-> FALSE, heap |-> heap, newBorrowers |-> acc]
    ELSE IF ~data[i].ok THEN [err |-> TRUE, heap |-> heap, newBorrowers |-> acc]
    ELSE UnpackAssets_Reuse(bs, data, i + 1,
             IF i <= Len(heap) THEN [heap EXCEPT ![i] = data[i].assets]
             ELSE Append(heap, data[i].assets),
             Append(acc, Borrower(bs[i], IF i <= Len(heap) THEN i
                                         ELSE Len(heap) + 1, NilShortfall)))

\* run(): the loop that unpacks the batch results into newBorrowers.  Each
\* unpacked market list is a freshly allocated slice.
RECURSIVE UnpackAssets(_, _, _, _, _)
UnpackAssets(bs, data, i, heap, acc) ==
    IF i > Len(data) THEN [err |-> FALSE, heap |-> heap, newBorrowers |-> acc]
    ELSE IF ~data[i].ok THEN [err |-> TRUE, heap |-> heap, newBorrowers |-> acc]
    ELSE UnpackAssets(bs, data, i + 1, Append(heap, data[i].assets),
                      Append(acc, Borrower(bs[i], Len(heap) + 1, NilShortfall)))

\* Variant of RunStart in which a tick starts run() without waiting for the
\* run() before it to return.
RunStart_Overlapping ==
    /\ ~crashed
    /\ newPc = "done"
    /\ runCount < MaxRuns
    /\ runPc' = "fetching"
    /\ runCount' = runCount + 1
    /\ UNCHANGED <<cacheBorrowers, lockWriter, lockReaders, assetHeap,
                   runBorrowers, newBorrowers, runErr, crashed>>
    /\ UNCHANGED <<scanVars, readSeen, runData, commits, cfgVars, fmtVars, startVars,
                   transactions>>

\* Init: c.run() at startup and on every tick; run() logs and calls
\* GetAllBorrowers.
RunStart ==
    /\ ~crashed
    /\ newPc = "done"
    /\ runPc = "idle"
    /\ runCount < MaxRuns
    /\ runPc' = "fetching"
    /\ runCount' = runCount + 1
    /\ UNCHANGED <<cacheBorrowers, lockWriter, lockReaders, assetHeap,
                   runBorrowers, newBorrowers, runErr, crashed>>
    /\ UNCHANGED <<scanVars, readSeen, runData, commits, cfgVars, fmtVars, startVars,
                   transactions>>

\* Variant of RunFetchFail in which the error ends the Init goroutine
\* instead of being logged.
RunFetchFail_Return ==
    /\ ~crashed
    /\ runPc = "fetching"
    /\ runPc' = "returned"
    /\ runErr' = "error"
    /\ UNCHANGED <<cacheBorrowers, lockWriter, lockReaders, assetHeap,
                   runBorrowers, newBorrowers, runCount, crashed>>
    /\ UNCHANGED <<scanVars, readSeen, runData, commits, cfgVars, fmtVars, startVars,
                   transactions>>

\* run(): GetAllBorrowers returned an error.
RunFetchFail ==
    /\ ~crashed
    /\ runPc = "fetching"
    /\ runPc' = "idle"
    /\ runErr' = "error"
    /\ UNCHANGED <<cacheBorrowers, lockWriter, lockReaders, assetHeap,
                   runBorrowers, newBorrowers, runCount, crashed>>
    /\ UNCHANGED <<scanVars, readSeen, runData, commits, cfgVars, fmtVars, startVars,
                   transactions>>

\* run(): GetAllBorrowers returned list, but method.Inputs.Pack failed for
\* one of the borrowers.
RunPackFail ==
    /\ ~crashed
    /\ runPc = "fetching"
    /\ \E list \in BorrowerLists : Len(list) > 0
    /\ runPc' = "idle"
    /\ runErr' = "error"
    /\ UNCHANGED <<cacheBorrowers, lockWriter, lockReaders, assetHeap,
                   runBorrowers, newBorrowers, runCount, crashed>>
    /\ UNCHANGED <<scanVars, readSeen, runData, commits, cfgVars, fmtVars, startVars,
                   transactions>>

\* Variant of RunFetchOk that takes the write lock before calling Aggregate.
RunFetchOk_LockEarly ==
    /\ ~crashed
    /\ runPc = "fetching"
    /\ lockReaders = 0
    /\ ~lockWriter
    /\ lockWriter' = TRUE
    /\ \E list \in BorrowerLists : runBorrowers' = list
    /\ runPc' = "aggregating"
    /\ UNCHANGED <<cacheBorrowers, lockReaders, assetHeap,
                   newBorrowers, runErr, runCount, crashed>>
    /\ UNCHANGED <<scanVars, readSeen, runData, commits, cfgVars, fmtVars, startVars,
                   transactions>>

\* run(): GetAllBorrowers returned list, one call per borrower was packed
\* and Aggregate was called.
RunFetchOk ==
    /\ ~crashed
    /\ runPc = "fetching"
    /\ \E list \in BorrowerLists : runBorrowers' = list
    /\ runPc' = "aggregating"
    /\ UNCHANGED <<cacheBorrowers, lockWriter, lockReaders, assetHeap,
                   newBorrowers, runErr, runCount, crashed>>
    /\ UNCHANGED <<scanVars, readSeen, runData, commits, cfgVars, fmtVars, startVars,
                   transactions>>

\* run(): Aggregate returned an error.
RunAggregateFail ==
    /\ ~crashed
    /\ runPc = "aggregating"
    /\ runPc' = "idle"
    /\ runErr' = "error"
    /\ runBorrowers' = <<>>
    /\ UNCHANGED <<cacheBorrowers, lockWriter, lockReaders, assetHeap,
                   newBorrowers, runCount, crashed>>
    /\ UNCHANGED <<scanVars, readSeen, runData, commits, cfgVars, fmtVars, startVars,
                   transactions>>

\* Variant of RunAggregateOk that stores the entries unpacked so far into
\* c.borrowers when an Unpack fails.
RunAggregateOk_PartialCommit ==
    /\ ~crashed
    /\ runPc = "aggregating"
    /\ \E data \in ReturnData(AssetsResults, Len(runBorrowers)) :
          LET u == UnpackAssets(runBorrowers, data, 1, assetHeap, <<>>)
          IN  IF u.err
              THEN /\ runPc' = "idle"
                   /\ runErr' = "error"
                   /\ runBorrowers' = <<>>
                   /\ assetHeap' = u.heap
                   /\ cacheBorrowers' =
                         [i \in 1..Len(runBorrowers) |->
                            IF i <= Len(u.newBorrowers) THEN u.newBorrowers[i]
                            ELSE ZeroBorrower]
                   /\ UNCHANGED <<newBorrowers, runData>>
              ELSE /\ runPc' = "locking"
                   /\ assetHeap' = u.heap
                   /\ newBorrowers' = u.newBorrowers
                   /\ runData' = data
                   /\ UNCHANGED <<runErr, runBorrowers, cacheBorrowers>>
    /\ UNCHANGED <<lockWriter, lockReaders, runCount, crashed>>
    /\ UNCHANGED <<scanVars, readSeen, commits, cfgVars, fmtVars, startVars,
                   transactions>>

\* run(): Aggregate returned data; the results are unpacked into
\* newBorrowers.  An Unpack failure returns an error; otherwise run() goes
\* on to c.lock.Lock().
RunAggregateOk ==
    /\ ~crashed
    /\ runPc = "aggregating"
    /\ \E data \in ReturnData(AssetsResults, Len(runBorrowers)) :
          LET u == UnpackAssets(runBorrowers, data, 1, assetHeap, <<>>)
          IN  IF u.err
              THEN /\ runPc' = "idle"
                   /\ runErr' = "error"
                   /\ runBorrowers' = <<>>
                   /\ UNCHANGED <<assetHeap, newBorrowers, runData>>
              ELSE /\ runPc' = "locking"
                   /\ assetHeap' = u.heap
                   /\ newBorrowers' = u.newBorrowers
                   /\ runData' = data
                   /\ UNCHANGED <<runErr, runBorrowers>>
    /\ UNCHANGED <<cacheBorrowers, lockWriter, lockReaders, runCount, crashed>>
    /\ UNCHANGED <<scanVars, readSeen, commits, cfgVars, fmtVars, startVars,
                   transactions>>

\* run(): Aggregate returned fewer or more results than there were calls.
\* newBorrowers has one entry per fetched borrower; the loop fills the
\* positions it has results for, returns an error at a result that fails
\* to unpack, and indexes newBorrowers and borrowers past their end at the
\* first result beyond the calls.
RunAggregateMiscounted ==
    /\ ~crashed
    /\ runPc = "aggregating"
    /\ \E data \in SeqsUpTo(AssetsResults, Len(runBorrowers) + 1) :
          /\ Len(data) # Len(runBorrowers)
          /\ LET n == Len(runBorrowers)
                 m == IF Len(data) < n THEN Len(data) ELSE n
                 u == UnpackAssets(runBorrowers, SubSeq(data, 1, m), 1,
                                   assetHeap, <<>>)
             IN  IF u.err
                 THEN /\ runPc' = "idle"
                      /\ runErr' = "error"
                      /\ runBorrowers' = <<>>
                      /\ UNCHANGED <<assetHeap, newBorrowers, runData,
                                     crashed>>
                 ELSE IF Len(data) > n
                 THEN /\ crashed' = TRUE
                      /\ assetHeap' = u.heap
                      /\ newBorrowers' = u.newBorrowers
                      /\ UNCHANGED <<runPc, runErr, runBorrowers, runData>>
                 ELSE /\ runPc' = "locking"
                      /\ assetHeap' = u.heap
                      /\ newBorrowers' =
                            [i \in 1..n |-> IF i <= m THEN u.newBorrowers[i]
                                            ELSE ZeroBorrower]
                      /\ runData' = data
                      /\ UNCHANGED <<runErr, runBorrowers, crashed>>
    /\ UNCHANGED <<cacheBorrowers, lockWriter, lockReaders, runCount>>
    /\ UNCHANGED <<scanVars, readSeen, commits, cfgVars, fmtVars, startVars,
                   transactions>>

\* run(): c.lock.Lock() is granted once no reader holds the lock.
RunLock ==
    /\ ~crashed
    /\ runPc = "locking"
    /\ lockReaders = 0
    /\ ~lockWriter
    /\ lockWriter' = TRUE
    /\ runPc' = "locked"
    /\ UNCHANGED <<cacheBorrowers, lockReaders, assetHeap, runBorrowers,
                   newBorrowers, runErr, runCount, crashed>>
    /\ UNCHANGED <<scanVars, readSeen, runData, commits, cfgVars, fmtVars, startVars,
                   transactions>>

\* Variant of RunCommit that appends the new entries to the old snapshot.
RunCommit_Merge ==
    /\ ~crashed
    /\ runPc = "locked"
    /\ cacheBorrowers' = cacheBorrowers \o newBorrowers
    /\ lockWriter' = FALSE
    /\ runPc' = "idle"
    /\ runErr' = "nil"
    /\ runBorrowers' = <<>>
    /\ newBorrowers' = <<>>
    /\ readSeen' = IF Reading
                   THEN readSeen \cup {View(assetHeap, cacheBorrowers')}
                   ELSE readSeen
    /\ UNCHANGED <<lockReaders, assetHeap, runCount, crashed>>
    /\ runData' = <<>>
    /\ commits' = commits + 1
    /\ UNCHANGED <<scanVars, cfgVars, fmtVars, startVars,
                   transactions>>

\* run(): c.borrowers = newBorrowers; c.lock.Unlock(); return nil.
RunCommit ==
    /\ ~crashed
    /\ runPc = "locked"
    /\ cacheBorrowers' = newBorrowers
    /\ lockWriter' = FALSE
    /\ runPc' = "idle"
    /\ runErr' = "nil"
    /\ runBorrowers' = <<>>
    /\ newBorrowers' = <<>>
    /\ readSeen' = IF Reading
                   THEN readSeen \cup {View(assetHeap, newBorrowers)}
                   ELSE readSeen
    /\ UNCHANGED <<lockReaders, assetHeap, runCount, crashed>>
    /\ runData' = <<>>
    /\ commits' = commits + 1
    /\ UNCHANGED <<scanVars, cfgVars, fmtVars, startVars,
                   transactions>>

----------------------------------------------------------------------------
(* sort.Sort(ByShortfall(underwaterAccounts)) *)

\* Variant of ByShortfall.Less that orders ascending (Cmp == -1).
Less_Ascending(a, i, j) == a[i].Shortfall < a[j].Shortfall

\* ByShortfall.Less: a[i].Shortfall.Cmp(a[j].Shortfall) == 1
Less(a, i, j) == a[i].Shortfall > a[j].Shortfall

\* ByShortfall.Swap
Swap(a, i, j) == [a EXCEPT ![i] = a[j], ![j] = a[i]]

\* sort.insertionSort, inner loop:
\* for j := i; j > lo && Less(j, j-1); j-- { Swap(j, j-1) }
RECURSIVE insertionInner(_, _, _)
insertionInner(a, j, lo) ==
    IF j > lo /\ Less(a, j, j - 1)
    THEN insertionInner(Swap(a, j, j - 1), j - 1, lo)
    ELSE a

\* sort.insertionSort over positions lo..hi, outer loop from position i.
RECURSIVE insertionSort(_, _, _, _)
insertionSort(a, i, lo, hi) ==
    IF i > hi THEN a
    ELSE insertionSort(insertionInner(a, i, lo), i + 1, lo, hi)

\* sort.quickSort on at most 12 elements: one ShellSort pass with gap 6,
\* for i := a + 6; i < b; i++ { if Less(i, i-6) { Swap(i, i-6) } }
RECURSIVE shellPass(_, _, _)
shellPass(a, i, hi) ==
    IF i > hi THEN a
    ELSE shellPass(IF Less(a, i, i - 6) THEN Swap(a, i, i - 6) ELSE a,
                   i + 1, hi)

\* sort.Sort up to Go 1.18 (quickSort), for Len(a) <= 12.
quickSort(a) ==
    IF Len(a) > 1 THEN insertionSort(shellPass(a, 7, Len(a)), 2, 1, Len(a))
    ELSE a

\* sort.Sort from Go 1.19 on (pdqsort), for Len(a) <= 12.
pdqsort(a) == insertionSort(a, 2, 1, Len(a))

\* The orders sort.Sort can leave the slice in, over the Go releases the
\* module builds with.
SortOutcomes(a) == {quickSort(a), pdqsort(a)}

----------------------------------------------------------------------------
(* BorrowerCache.Read *)

\* Read(): the copy loop under the read lock.  buf is the slice made before
\* the lock was taken; an index past its end is a runtime panic.
\* Variant of CopyBorrowers that copies the addresses only.
RECURSIVE CopyBorrowers_NoAssets(_, _, _)
CopyBorrowers_NoAssets(buf, src, i) ==
    IF i > Len(src) THEN [panic |-> FALSE, borrowers |-> buf]
    ELSE IF i > Len(buf) THEN [panic |-> TRUE, borrowers |-> buf]
    ELSE CopyBorrowers_NoAssets(
            [buf EXCEPT ![i] = Borrower(src[i].Address, NilRef, NilShortfall)],
            src, i + 1)

\* Variant of CopyBorrowers that gives every copy a shortfall of zero.
RECURSIVE CopyBorrowers_ZeroShortfall(_, _, _)
CopyBorrowers_ZeroShortfall(buf, src, i) ==
    IF i > Len(src) THEN [panic |-> FALSE, borrowers |-> buf]
    ELSE IF i > Len(buf) THEN [panic |-> TRUE, borrowers |-> buf]
    ELSE CopyBorrowers_ZeroShortfall(
            [buf EXCEPT ![i] = Borrower(src[i].Address, src[i].Assets,
                                        0)],
            src, i + 1)

RECURSIVE CopyBorrowers(_, _, _)
CopyBorrowers(buf, src, i) ==
    IF i > Len(src) THEN [panic |-> FALSE, borrowers |-> buf]
    ELSE IF i > Len(buf) THEN [panic |-> TRUE, borrowers |-> buf]
    ELSE CopyBorrowers(
            [buf EXCEPT ![i] = Borrower(src[i].Address, src[i].Assets,
                                        NilShortfall)],
            src, i + 1)

\* A trigger starts ShortfallCheck, which calls Read();
\* Read(): borrowers := make([]Borrower, len(c.borrowers)), before the lock.
ReadSize ==
    /\ ~crashed
    /\ newPc = "done"
    /\ sub.state = "none"
    /\ scanPc = "idle"
    /\ scanPc' = "sized"
    /\ readLen' = Len(cacheBorrowers)
    /\ readSeen' = {View(assetHeap, cacheBorrowers)}
    /\ borrowers' = <<>>
    /\ resp' = <<>>
    /\ underwaterAccounts' = <<>>
    /\ resolveIdx' = 0
    /\ resolved' = <<>>
    /\ aggregateCalls' = 0
    /\ scanErr' = "none"
    /\ UNCHANGED <<lockReaders, crashed>>
    /\ queries' = <<>>
    /\ lines' = <<>>
    /\ UNCHANGED <<cacheVars, cfgVars, fmtVars, startVars,
                   transactions>>

\* Read(): c.lock.RLocker().Lock() is granted while no writer holds the lock.
ReadLock ==
    /\ ~crashed
    /\ scanPc = "sized"
    /\ ~lockWriter
    /\ lockReaders' = lockReaders + 1
    /\ scanPc' = "rlocked"
    /\ UNCHANGED <<readLen, borrowers, resp, underwaterAccounts, resolveIdx,
                   resolved, aggregateCalls, scanErr, crashed>>
    /\ UNCHANGED <<cacheVars, readSeen, logVars, cfgVars, fmtVars, startVars,
                   transactions>>

\* Variant of ReadCopy that returns without releasing the read lock.
ReadCopy_NoUnlock ==
    /\ ~crashed
    /\ scanPc = "rlocked"
    /\ LET c == CopyBorrowers([i \in 1..readLen |-> ZeroBorrower],
                              cacheBorrowers, 1)
       IN  IF c.panic
           THEN /\ crashed' = TRUE
                /\ UNCHANGED <<scanPc, borrowers>>
           ELSE /\ borrowers' = c.borrowers
                /\ scanPc' = "read"
                /\ UNCHANGED crashed
    /\ UNCHANGED <<readLen, resp, underwaterAccounts, resolveIdx, resolved,
                   aggregateCalls, scanErr, lockReaders>>
    /\ UNCHANGED <<cacheVars, readSeen, logVars, cfgVars, fmtVars, startVars,
                   transactions>>

\* Variant of ReadCopy that hands the snapshot over to the caller and leaves
\* the cache empty.
ReadCopy_TakesSnapshot ==
    /\ ~crashed
    /\ scanPc = "rlocked"
    /\ LET c == CopyBorrowers([i \in 1..readLen |-> ZeroBorrower],
                              cacheBorrowers, 1)
       IN  IF c.panic
           THEN /\ crashed' = TRUE
                /\ UNCHANGED cacheBorrowers
                /\ UNCHANGED <<scanPc, borrowers, lockReaders>>
           ELSE /\ borrowers' = c.borrowers
                /\ cacheBorrowers' = <<>>
                /\ lockReaders' = lockReaders - 1
                /\ scanPc' = "read"
                /\ UNCHANGED crashed
    /\ UNCHANGED <<readLen, resp, underwaterAccounts, resolveIdx, resolved,
                   aggregateCalls, scanErr>>
    /\ UNCHANGED <<lockWriter, assetHeap, runPc, runBorrowers, newBorrowers,
                   runErr, runCount, runData, commits>>
    /\ UNCHANGED <<readSeen, logVars, cfgVars, fmtVars, startVars,
                   transactions>>

\* Read(): the copy loop, c.lock.RLocker().Unlock() and the return.
ReadCopy ==
    /\ ~crashed
    /\ scanPc = "rlocked"
    /\ LET c == CopyBorrowers([i \in 1..readLen |-> ZeroBorrower],
                              cacheBorrowers, 1)
       IN  IF c.panic
           THEN /\ crashed' = TRUE
                /\ UNCHANGED <<scanPc, borrowers, lockReaders>>
           ELSE /\ borrowers' = c.borrowers
                /\ lockReaders' = lockReaders - 1
                /\ scanPc' = "read"
                /\ UNCHANGED crashed
    /\ UNCHANGED <<readLen, resp, underwaterAccounts, resolveIdx, resolved,
                   aggregateCalls, scanErr>>
    /\ UNCHANGED <<cacheVars, readSeen, logVars, cfgVars, fmtVars, startVars,
                   transactions>>

----------------------------------------------------------------------------
(* Liquidatoor.SubscribeToBlocks *)

\* SubscribeNewHead succeeded: headers of the blocks after the current one
\* will be forwarded.
SubscribeOk ==
    /\ ~crashed
    /\ newPc = "done"
    /\ sub.state = "new"
    /\ sub' = Subscription("live", height + 1, 0, 0)
    /\ UNCHANGED <<cacheVars, scanVars, cfgVars, fmtVars, readSeen,
                   lockReaders, crashed, newPc, chain, transactions, height,
                   headers>>

\* SubscribeNewHead returned an error: log.Fatalf ends the process.
SubscribeFail ==
    /\ ~crashed
    /\ newPc = "done"
    /\ sub.state = "new"
    /\ sub' = Subscription("exited", 0, 0, 0)
    /\ UNCHANGED <<cacheVars, scanVars, cfgVars, fmtVars, readSeen,
                   lockReaders, crashed, newPc, chain, transactions, height,
                   headers>>

\* The chain gets a new block.
NewBlock ==
    /\ height < MaxBlocks
    /\ height' = height + 1
    /\ UNCHANGED <<cacheVars, scanVars, cfgVars, fmtVars, readSeen,
                   lockReaders, crashed, newPc, chain, transactions, sub,
                   headers>>

\* The subscription fails (the connection is lost, say): it puts its one
\* error into the channel of sub.Err() and forwards no header of a later
\* block; SubscribeToBlocks does not subscribe again.
SubscriptionError ==
    /\ sub.state = "live"
    /\ sub' = [sub EXCEPT !.state = "failed", !.at = height]
    /\ UNCHANGED <<cacheVars, scanVars, cfgVars, fmtVars, readSeen,
                   lockReaders, crashed, newPc, chain, transactions, height,
                   headers>>

\* select: case err := <-sub.Err(), the error is logged.  The first receive
\* takes the error; a later one happens only with a subscription that
\* closes the channel after the error, and then yields nil.
ReceiveSubErr ==
    /\ ~crashed
    /\ scanPc = "idle"
    /\ \/ sub.state = "failed"
       \/ sub.state = "dead" /\ sub.errs < MaxSubErrs
    /\ sub' = [sub EXCEPT !.state = "dead", !.errs = sub.errs + 1]
    /\ UNCHANGED <<cacheVars, scanVars, cfgVars, fmtVars, readSeen,
                   lockReaders, crashed, newPc, chain, transactions, height,
                   headers>>

\* Variant of ProcessBlock that starts ShortfallCheck for a header without
\* waiting for the check in progress to return.
ProcessBlock_Overlapping ==
    /\ ~crashed
    /\ newPc = "done"
    /\ \/ sub.state = "live" /\ sub.next <= height
       \/ sub.state \in {"failed", "dead"} /\ sub.next <= sub.at
    /\ headers' = Append(headers, sub.next)
    /\ sub' = [sub EXCEPT !.next = sub.next + 1]
    /\ scanPc' = "sized"
    /\ readLen' = Len(cacheBorrowers)
    /\ readSeen' = {View(assetHeap, cacheBorrowers)}
    /\ borrowers' = <<>>
    /\ resp' = <<>>
    /\ underwaterAccounts' = <<>>
    /\ resolveIdx' = 0
    /\ resolved' = <<>>
    /\ aggregateCalls' = 0
    /\ scanErr' = "none"
    /\ queries' = <<>>
    /\ lines' = <<>>
    /\ UNCHANGED <<cacheVars, cfgVars, fmtVars, lockReaders, crashed, newPc,
                   chain, transactions, height>>

\* select: case header := <-headers.  The block is logged and
\* ShortfallCheck is called, which calls Read(); Read() makes its result
\* before the lock.  A failed subscription can still hand over headers of
\* blocks from before its failure, none of a later block.
ProcessBlock ==
    /\ ~crashed
    /\ newPc = "done"
    /\ scanPc = "idle"
    /\ \/ sub.state = "live" /\ sub.next <= height
       \/ sub.state \in {"failed", "dead"} /\ sub.next <= sub.at
    /\ headers' = Append(headers, sub.next)
    /\ sub' = [sub EXCEPT !.next = sub.next + 1]
    /\ scanPc' = "sized"
    /\ readLen' = Len(cacheBorrowers)
    /\ readSeen' = {View(assetHeap, cacheBorrowers)}
    /\ borrowers' = <<>>
    /\ resp' = <<>>
    /\ underwaterAccounts' = <<>>
    /\ resolveIdx' = 0
    /\ resolved' = <<>>
    /\ aggregateCalls' = 0
    /\ scanErr' = "none"
    /\ queries' = <<>>
    /\ lines' = <<>>
    /\ UNCHANGED <<cacheVars, cfgVars, fmtVars, lockReaders, crashed, newPc,
                   chain, transactions, height>>

----------------------------------------------------------------------------
(* Liquidatoor.ShortfallCheck *)

\* One getAccountLiquidity result of the scan batch: ok is whether
\* Outputs.Unpack accepts the return data; (cErr, liquidity, shortfall) is
\* the decoded triple.
LiquidityResults(errs, liquidities, shortfalls) ==
    [ok : {TRUE}, cErr : errs, liquidity : liquidities,
     shortfall : shortfalls] \cup
    {[ok |-> FALSE, cErr |-> 0, liquidity |-> 0, shortfall |-> 0]}

\* Variant of FilterUnderwater that takes a nonzero shortfall for underwater
\* without comparing it with the liquidity.
RECURSIVE FilterUnderwater_ShortfallOnly(_, _, _, _)
FilterUnderwater_ShortfallOnly(bs, data, i, acc) ==
    IF i > Len(data) THEN [err |-> FALSE, underwaterAccounts |-> acc]
    ELSE IF ~data[i].ok THEN [err |-> TRUE, underwaterAccounts |-> acc]
    ELSE IF data[i].cErr # 0
         THEN FilterUnderwater_ShortfallOnly(bs, data, i + 1, acc)
    ELSE IF data[i].shortfall > 0
         THEN FilterUnderwater_ShortfallOnly(bs, data, i + 1,
                  Append(acc, Borrower(bs[i].Address, bs[i].Assets,
                                       data[i].shortfall)))
         ELSE FilterUnderwater_ShortfallOnly(bs, data, i + 1, acc)

\* Variant of FilterUnderwater that returns an error on a nonzero contract
\* error code instead of skipping the entry.
RECURSIVE FilterUnderwater_ErrAborts(_, _, _, _)
FilterUnderwater_ErrAborts(bs, data, i, acc) ==
    IF i > Len(data) THEN [err |-> FALSE, underwaterAccounts |-> acc]
    ELSE IF ~data[i].ok THEN [err |-> TRUE, underwaterAccounts |-> acc]
    ELSE IF data[i].cErr # 0 THEN [err |-> TRUE, underwaterAccounts |-> acc]
    ELSE IF data[i].liquidity < data[i].shortfall
         THEN FilterUnderwater_ErrAborts(bs, data, i + 1,
                  Append(acc, Borrower(bs[i].Address, bs[i].Assets,
                                       data[i].shortfall)))
         ELSE FilterUnderwater_ErrAborts(bs, data, i + 1, acc)

\* Variant of FilterUnderwater that indexes the borrowers by the number of
\* accounts emitted so far instead of by the position of the result.
RECURSIVE FilterUnderwater_Misattributed(_, _, _, _)
FilterUnderwater_Misattributed(bs, data, i, acc) ==
    IF i > Len(data) THEN [err |-> FALSE, underwaterAccounts |-> acc]
    ELSE IF ~data[i].ok THEN [err |-> TRUE, underwaterAccounts |-> acc]
    ELSE IF data[i].cErr # 0
         THEN FilterUnderwater_Misattributed(bs, data, i + 1, acc)
    ELSE IF data[i].liquidity < data[i].shortfall
         THEN FilterUnderwater_Misattributed(bs, data, i + 1,
                  Append(acc, Borrower(bs[Len(acc) + 1].Address,
                                       bs[Len(acc) + 1].Assets,
                                       data[i].shortfall)))
         ELSE FilterUnderwater_Misattributed(bs, data, i + 1, acc)

\* Variant of FilterUnderwater that appends an underwater account twice.
RECURSIVE FilterUnderwater_ReportsTwice(_, _, _, _)
FilterUnderwater_ReportsTwice(bs, data, i, acc) ==
    IF i > Len(data) THEN [err |-> FALSE, underwaterAccounts |-> acc]
    ELSE IF ~data[i].ok THEN [err |-> TRUE, underwaterAccounts |-> acc]
    ELSE IF data[i].cErr # 0 THEN FilterUnderwater_ReportsTwice(bs, data, i + 1, acc)
    ELSE IF data[i].liquidity < data[i].shortfall
         THEN FilterUnderwater_ReportsTwice(bs, data, i + 1,
                  acc \o <<Borrower(bs[i].Address, bs[i].Assets,
                                    data[i].shortfall),
                           Borrower(bs[i].Address, bs[i].Assets,
                                    data[i].shortfall)>>)
         ELSE FilterUnderwater_ReportsTwice(bs, data, i + 1, acc)

\* ShortfallCheck: the loop over resp.ReturnData that filters the underwater
\* accounts.
RECURSIVE FilterUnderwater(_, _, _, _)
FilterUnderwater(bs, data, i, acc) ==
    IF i > Len(data) THEN [err |-> FALSE, underwaterAccounts |-> acc]
    ELSE IF ~data[i].ok THEN [err |-> TRUE, underwaterAccounts |-> acc]
    ELSE IF data[i].cErr # 0 THEN FilterUnderwater(bs, data, i + 1, acc)
    ELSE IF data[i].liquidity < data[i].shortfall
         THEN FilterUnderwater(bs, data, i + 1,
                  Append(acc, Borrower(bs[i].Address, bs[i].Assets,
                                       data[i].shortfall)))
         ELSE FilterUnderwater(bs, data, i + 1, acc)

\* ShortfallCheck: Read() returned an empty slice.
ScanEmpty ==
    /\ ~crashed
    /\ scanPc = "read"
    /\ Len(borrowers) = 0
    /\ scanPc' = "idle"
    /\ scanErr' = "nil"
    /\ UNCHANGED <<readLen, borrowers, resp, underwaterAccounts, resolveIdx,
                   resolved, aggregateCalls, lockReaders, crashed>>
    /\ UNCHANGED <<cacheVars, readSeen, logVars, cfgVars, fmtVars, startVars,
                   transactions>>

\* ShortfallCheck: Inputs.Pack failed for one of the borrowers.
ScanPackFail ==
    /\ ~crashed
    /\ scanPc = "read"
    /\ Len(borrowers) # 0
    /\ scanPc' = "idle"
    /\ scanErr' = "error"
    /\ UNCHANGED <<readLen, borrowers, resp, underwaterAccounts, resolveIdx,
                   resolved, aggregateCalls, lockReaders, crashed>>
    /\ UNCHANGED <<cacheVars, readSeen, logVars, cfgVars, fmtVars, startVars,
                   transactions>>

\* Variant of ScanAggregateCall without the check for an empty cache.
ScanAggregateCall_NoEmptyCheck ==
    /\ ~crashed
    /\ scanPc = "read"
    /\ scanPc' = "aggregating"
    /\ aggregateCalls' = aggregateCalls + 1
    /\ UNCHANGED <<readLen, borrowers, resp, underwaterAccounts, resolveIdx,
                   resolved, scanErr, lockReaders, crashed>>
    /\ UNCHANGED <<cacheVars, readSeen, logVars, cfgVars, fmtVars, startVars,
                   transactions>>

\* ShortfallCheck: one call per borrower was packed and Aggregate was called.
ScanAggregateCall ==
    /\ ~crashed
    /\ scanPc = "read"
    /\ Len(borrowers) # 0
    /\ scanPc' = "aggregating"
    /\ aggregateCalls' = aggregateCalls + 1
    /\ UNCHANGED <<readLen, borrowers, resp, underwaterAccounts, resolveIdx,
                   resolved, scanErr, lockReaders, crashed>>
    /\ UNCHANGED <<cacheVars, readSeen, logVars, cfgVars, fmtVars, startVars,
                   transactions>>

\* Variant of ScanAggregateFail that logs the error and returns nil.
ScanAggregateFail_Swallowed ==
    /\ ~crashed
    /\ scanPc = "aggregating"
    /\ scanPc' = "idle"
    /\ scanErr' = "nil"
    /\ UNCHANGED <<readLen, borrowers, resp, underwaterAccounts, resolveIdx,
                   resolved, aggregateCalls, lockReaders, crashed>>
    /\ UNCHANGED <<cacheVars, readSeen, logVars, cfgVars, fmtVars, startVars,
                   transactions>>

\* Variant of ScanAggregateFail in which the caller of ShortfallCheck exits
\* the process on the error.
ScanAggregateFail_Fatal ==
    /\ ~crashed
    /\ scanPc = "aggregating"
    /\ scanPc' = "idle"
    /\ scanErr' = "error"
    /\ crashed' = TRUE
    /\ UNCHANGED <<readLen, borrowers, resp, underwaterAccounts, resolveIdx,
                   resolved, aggregateCalls, lockReaders>>
    /\ UNCHANGED <<cacheVars, readSeen, logVars, cfgVars, fmtVars, startVars,
                   transactions>>

\* ShortfallCheck: Aggregate returned an error.
ScanAggregateFail ==
    /\ ~crashed
    /\ scanPc = "aggregating"
    /\ scanPc' = "idle"
    /\ scanErr' = "error"
    /\ UNCHANGED <<readLen, borrowers, resp, underwaterAccounts, resolveIdx,
                   resolved, aggregateCalls, lockReaders, crashed>>
    /\ UNCHANGED <<cacheVars, readSeen, logVars, cfgVars, fmtVars, startVars,
                   transactions>>

\* Variant of ScanAggregateOk that, when a result fails to decode, still
\* resolves the accounts classified before it.
ScanAggregateOk_ResolvesPartial(R) ==
    /\ ~crashed
    /\ scanPc = "aggregating"
    /\ \E data \in ReturnData(R, Len(borrowers)) :
          LET f == FilterUnderwater(borrowers, data, 1, <<>>)
          IN  /\ resp' = data
              /\ IF f.err
                 THEN /\ underwaterAccounts' \in
                             SortOutcomes(f.underwaterAccounts)
                      /\ scanErr' = "error"
                      /\ IF Len(f.underwaterAccounts) = 0
                         THEN /\ scanPc' = "idle"
                              /\ UNCHANGED resolveIdx
                         ELSE /\ scanPc' = "resolving"
                              /\ resolveIdx' = 1
                 ELSE /\ underwaterAccounts' \in
                             SortOutcomes(f.underwaterAccounts)
                      /\ IF Len(f.underwaterAccounts) = 0
                         THEN /\ scanPc' = "idle"
                              /\ scanErr' = "nil"
                              /\ UNCHANGED resolveIdx
                         ELSE /\ scanPc' = "resolving"
                              /\ resolveIdx' = 1
                              /\ UNCHANGED scanErr
    /\ UNCHANGED <<readLen, borrowers, resolved, aggregateCalls, lockReaders,
                   crashed>>
    /\ UNCHANGED <<cacheVars, readSeen, logVars, cfgVars, fmtVars, startVars,
                   transactions>>

\* ShortfallCheck: Aggregate returned data, drawn from R per entry; the
\* results are filtered and the underwater accounts sorted.  An Unpack
\* failure returns an error; with no underwater account the loop over them
\* is empty and the check returns nil.
ScanAggregateOk(R) ==
    /\ ~crashed
    /\ scanPc = "aggregating"
    /\ \E data \in ReturnData(R, Len(borrowers)) :
          LET f == FilterUnderwater(borrowers, data, 1, <<>>)
          IN  /\ resp' = data
              /\ IF f.err
                 THEN /\ underwaterAccounts' = f.underwaterAccounts
                      /\ scanPc' = "idle"
                      /\ scanErr' = "error"
                      /\ UNCHANGED resolveIdx
                 ELSE /\ underwaterAccounts' \in
                             SortOutcomes(f.underwaterAccounts)
                      /\ IF Len(f.underwaterAccounts) = 0
                         THEN /\ scanPc' = "idle"
                              /\ scanErr' = "nil"
                              /\ UNCHANGED resolveIdx
                         ELSE /\ scanPc' = "resolving"
                              /\ resolveIdx' = 1
                              /\ UNCHANGED scanErr
    /\ UNCHANGED <<readLen, borrowers, resolved, aggregateCalls, lockReaders,
                   crashed>>
    /\ UNCHANGED <<cacheVars, readSeen, logVars, cfgVars, fmtVars, startVars,
                   transactions>>

(* math/big on non-negative values, digit by digit *)

\* nat.norm: no leading zero digits.
RECURSIVE norm(_)
norm(a) ==
    IF a = <<>> THEN zero
    ELSE IF Len(a) > 1 /\ a[1] = 0 THEN norm(Tail(a))
    ELSE a

RECURSIVE cmpDigits(_, _, _)
cmpDigits(a, b, i) ==
    IF i > Len(a) THEN 0
    ELSE IF a[i] < b[i] THEN -1
    ELSE IF a[i] > b[i] THEN 1
    ELSE cmpDigits(a, b, i + 1)

\* big.Int.Cmp: -1, 0 or 1.
Cmp(a, b) ==
    IF Len(a) < Len(b) THEN -1
    ELSE IF Len(a) > Len(b) THEN 1
    ELSE cmpDigits(a, b, 1)

\* a - b for a >= b, from the least significant digit (k digits from the
\* right) with a borrow.
RECURSIVE subDigits(_, _, _, _, _)
subDigits(a, b, k, borrow, acc) ==
    IF k >= Len(a) THEN norm(acc)
    ELSE LET x == a[Len(a) - k]
             y == IF k < Len(b) THEN b[Len(b) - k] ELSE 0
             d == x - y - borrow
         IN  IF d < 0
             THEN subDigits(a, b, k + 1, 1, <<d + 10>> \o acc)
             ELSE subDigits(a, b, k + 1, 0, <<d>> \o acc)

Sub(a, b) == subDigits(a, b, 0, 0, <<>>)

\* One quotient digit: how often b fits into the running remainder r.
RECURSIVE quotDigit(_, _, _)
quotDigit(r, b, q) ==
    IF Cmp(r, b) = -1 THEN [q |-> q, r |-> r]
    ELSE quotDigit(Sub(r, b), b, q + 1)

RECURSIVE divDigits(_, _, _, _, _)
divDigits(a, b, i, r, q) ==
    IF i > Len(a) THEN norm(q)
    ELSE LET s == quotDigit(norm(Append(r, a[i])), b, 0)
         IN  divDigits(a, b, i + 1, s.r, Append(q, s.q))

\* big.Int.Div for a >= 0 and b > 0: zero when a < b, else the quotient of
\* the long division.
Div(a, b) == IF Cmp(a, b) = -1 THEN zero ELSE divDigits(a, b, 1, zero, <<>>)

DigitChars == <<"0", "1", "2", "3", "4", "5", "6", "7", "8", "9">>

\* big.Int.String: the decimal text, one character per digit.
Text(a) == [i \in 1..Len(a) |-> DigitChars[a[i] + 1]]

----------------------------------------------------------------------------
(* New() *)

\* Variant of InstantiateMarkets that takes every listed market for a borrow
\* market.
RECURSIVE InstantiateMarkets_NoBorrowCheck(_, _, _, _)
InstantiateMarkets_NoBorrowCheck(c, i, borrow, lend) ==
    IF i > Len(c.markets)
    THEN [BorrowMarkets |-> borrow, LendMarkets |-> lend]
    ELSE LET market == c.markets[i]
         IN  InstantiateMarkets_NoBorrowCheck(c, i + 1, borrow \cup {market},
                                              lend \cup {market})

\* New(): the loop over the markets GetAllMarkets returned, from the i-th
\* on, filling BorrowMarkets and LendMarkets.
RECURSIVE InstantiateMarkets(_, _, _, _)
InstantiateMarkets(c, i, borrow, lend) ==
    IF i > Len(c.markets)
    THEN [BorrowMarkets |-> borrow, LendMarkets |-> lend]
    ELSE LET market == c.markets[i]
             borrows == c.totalBorrows[market]
         IN  InstantiateMarkets(c, i + 1,
                 IF Cmp(borrows, zero) = 1 THEN borrow \cup {market}
                 ELSE borrow,
                 lend \cup {market})

\* getUnderlyingInfo: an entry for every market in LendMarkets.
getUnderlyingInfo(c, lend) == [address \in lend |-> c.decimals[address]]

\* The Liquidatoor struct New() starts from and the cache it will create:
\* empty maps, an empty snapshot, nothing running; the ledger is one of L.
Fresh(L) ==
    /\ chain \in L
    /\ newPc = "new"
    /\ borrowMarkets = {}
    /\ lendMarkets = {}
    /\ underlyingInfo = <<>>
    /\ transactions = <<>>
    /\ sub = NoSubscription
    /\ height = 0
    /\ headers = <<>>
    /\ cacheBorrowers = <<>>
    /\ lockWriter = FALSE
    /\ lockReaders = 0
    /\ assetHeap = <<>>
    /\ runPc = "idle"
    /\ runBorrowers = <<>>
    /\ newBorrowers = <<>>
    /\ runErr = "none"
    /\ runCount = 0
    /\ runData = <<>>
    /\ commits = 0
    /\ scanPc = "idle"
    /\ readLen = 0
    /\ readSeen = {}
    /\ borrowers = <<>>
    /\ resp = <<>>
    /\ underwaterAccounts = <<>>
    /\ resolveIdx = 0
    /\ resolved = <<>>
    /\ aggregateCalls = 0
    /\ scanErr = "none"
    /\ crashed = FALSE
    /\ queries = <<>>
    /\ lines = <<>>
    /\ balance = ZeroBalance
    /\ rendered = NotRendered

\* New() returned an error: a validation, the connection or one of the calls
\* to the ledger failed, and main exits.
NewFail ==
    /\ newPc = "new"
    /\ newPc' = "failed"
    /\ UNCHANGED <<cacheVars, scanVars, cfgVars, fmtVars, readSeen,
                   lockReaders, crashed, chain, transactions, subVars>>

\* New() succeeded: the markets are instantiated, their underlying info is
\* read, the Init goroutine of the cache is started and l is returned.
NewOk ==
    /\ newPc = "new"
    /\ LET m == InstantiateMarkets(chain, 1, {}, {})
       IN  /\ borrowMarkets' = m.BorrowMarkets
           /\ lendMarkets' = m.LendMarkets
           /\ underlyingInfo' = getUnderlyingInfo(chain, m.LendMarkets)
    /\ newPc' = "done"
    /\ UNCHANGED <<cacheVars, scanVars, fmtVars, readSeen, lockReaders,
                   crashed, chain, transactions, subVars>>

----------------------------------------------------------------------------
(* Balance.String *)

divider6 == <<1, 0, 0, 0, 0, 0, 0>>

divider8 == <<1, 0, 0, 0, 0, 0, 0, 0, 0>>

\* Variant of divider9 holding 10^8.
divider9_Short == <<1, 0, 0, 0, 0, 0, 0, 0, 0>>

divider9 == <<1, 0, 0, 0, 0, 0, 0, 0, 0, 0>>

divider18 == <<1, 0, 0, 0, 0, 0, 0, 0, 0, 0, 0, 0, 0, 0, 0, 0, 0, 0, 0>>

\* Balance.String: the text returned, or the panic of the default case.
String(b) ==
    CASE b.decimals = 6 ->
            [done |-> TRUE, panic |-> FALSE, text |-> Text(Div(b.value, divider6))]
      [] b.decimals = 8 ->
            [done |-> TRUE, panic |-> FALSE, text |-> Text(Div(b.value, divider8))]
      [] b.decimals = 9 ->
            [done |-> TRUE, panic |-> FALSE, text |-> Text(Div(b.value, divider9))]
      [] b.decimals = 18 ->
            [done |-> TRUE, panic |-> FALSE, text |-> Text(Div(b.value, divider18))]
      [] OTHER ->
            [done |-> TRUE, panic |-> TRUE, text |-> <<>>]

\* What fmt prints for a String method that panicked.
PanicText == <<"%!s(PANIC=String method: no support for decimals)">>

\* The %s verb of fmt.Printf applied to a Balance: fmt calls String and
\* recovers from a panic of the method, printing a marker in its place.
Formatted(b) == LET s == String(b) IN IF s.panic THEN PanicText ELSE s.text

\* A call of Balance.String on its own.
BalanceString ==
    /\ ~rendered.done
    /\ rendered' = String(balance)
    /\ UNCHANGED <<cacheVars, scanVars, cfgVars, readSeen, lockReaders,
                   crashed, balance, startVars, transactions>>

----------------------------------------------------------------------------
(* getAssets *)

\* A balance call that returned an error.
CallFailed == [err |-> TRUE, value |-> <<>>]

CallReturned(value) == [err |-> FALSE, value |-> value]

Query(idx, account, market, method, out) ==
    [idx |-> idx, account |-> account, market |-> market, method |-> method,
     err |-> out.err, value |-> out.value]

Line(idx, account, market, kind, text) ==
    [idx |-> idx, account |-> account, market |-> market, kind |-> kind,
     text |-> text]

\* Variant of getAssets that prints a borrowed line for a zero balance too.
RECURSIVE getAssets_ReportZeroBorrow(_, _, _, _, _, _, _)
getAssets_ReportZeroBorrow(idx, account, assets, outs, i, qs, ls) ==
    IF i > Len(assets) THEN [queries |-> qs, lines |-> ls, panic |-> FALSE]
    ELSE
      LET address == assets[i]
          decimals == IF address \in DOMAIN underlyingInfo
                      THEN underlyingInfo[address] ELSE 0
          ok == address \in borrowMarkets
      IN  IF ~ok
          THEN IF address \notin lendMarkets
               THEN [queries |-> qs, lines |-> ls, panic |-> TRUE]
               ELSE LET q == Query(idx, account, address,
                                   "BalanceOfUnderlying", outs[i])
                    IN  IF outs[i].err
                        THEN [queries |-> Append(qs, q), lines |-> ls,
                              panic |-> FALSE]
                        ELSE getAssets_ReportZeroBorrow(idx, account, assets, outs, i + 1,
                                 Append(qs, q),
                                 Append(ls, Line(idx, account, address, "balance",
                                     Formatted(Balance(outs[i].value, decimals)))))
          ELSE LET q == Query(idx, account, address,
                              "BorrowBalanceStored", outs[i])
               IN  IF outs[i].err
                   THEN [queries |-> Append(qs, q), lines |-> ls,
                         panic |-> FALSE]
                   ELSE IF TRUE
                   THEN getAssets_ReportZeroBorrow(idx, account, assets, outs, i + 1,
                            Append(qs, q),
                            Append(ls, Line(idx, account, address, "borrowed",
                                Formatted(Balance(outs[i].value, decimals)))))
                   ELSE getAssets_ReportZeroBorrow(idx, account, assets, outs, i + 1,
                            Append(qs, q), ls)

\* Variant of getAssets in which the panic of Balance.String is not recovered
\* by the formatter and ends the process.
RECURSIVE getAssets_StringPanicPropagates(_, _, _, _, _, _, _)
getAssets_StringPanicPropagates(idx, account, assets, outs, i, qs, ls) ==
    IF i > Len(assets) THEN [queries |-> qs, lines |-> ls, panic |-> FALSE]
    ELSE
      LET address == assets[i]
          decimals == IF address \in DOMAIN underlyingInfo
                      THEN underlyingInfo[address] ELSE 0
          ok == address \in borrowMarkets
      IN  IF ~ok
          THEN IF address \notin lendMarkets
               THEN [queries |-> qs, lines |-> ls, panic |-> TRUE]
               ELSE LET q == Query(idx, account, address,
                                   "BalanceOfUnderlying", outs[i])
                    IN  IF outs[i].err
                        THEN [queries |-> Append(qs, q), lines |-> ls,
                              panic |-> FALSE]
                        ELSE IF String(Balance(outs[i].value, decimals)).panic
                        THEN [queries |-> Append(qs, q), lines |-> ls,
                              panic |-> TRUE]
                        ELSE getAssets_StringPanicPropagates(idx, account, assets, outs, i + 1,
                                 Append(qs, q),
                                 Append(ls, Line(idx, account, address, "balance",
                                     Formatted(Balance(outs[i].value, decimals)))))
          ELSE LET q == Query(idx, account, address,
                              "BorrowBalanceStored", outs[i])
               IN  IF outs[i].err
                   THEN [queries |-> Append(qs, q), lines |-> ls,
                         panic |-> FALSE]
                   ELSE IF Cmp(outs[i].value, zero) # 0
                   THEN IF String(Balance(outs[i].value, decimals)).panic
                   THEN [queries |-> Append(qs, q), lines |-> ls,
                         panic |-> TRUE]
                   ELSE getAssets_StringPanicPropagates(idx, account, assets, outs, i + 1,
                            Append(qs, q),
                            Append(ls, Line(idx, account, address, "borrowed",
                                Formatted(Balance(outs[i].value, decimals)))))
                   ELSE getAssets_StringPanicPropagates(idx, account, assets, outs, i + 1,
                            Append(qs, q), ls)

\* getAssets(account, assets) from the i-th asset on, as the idx-th call of
\* the cycle; outs[i] is what the balance call for the i-th asset returns.
\* The result holds the calls made and lines printed so far, and whether the
\* call went through a nil *CToken.
RECURSIVE getAssets(_, _, _, _, _, _, _)
getAssets(idx, account, assets, outs, i, qs, ls) ==
    IF i > Len(assets) THEN [queries |-> qs, lines |-> ls, panic |-> FALSE]
    ELSE
      LET address == assets[i]
          decimals == IF address \in DOMAIN underlyingInfo
                      THEN underlyingInfo[address] ELSE 0
          ok == address \in borrowMarkets
      IN  IF ~ok
          THEN IF address \notin lendMarkets
               THEN [queries |-> qs, lines |-> ls, panic |-> TRUE]
               ELSE LET q == Query(idx, account, address,
                                   "BalanceOfUnderlying", outs[i])
                    IN  IF outs[i].err
                        THEN [queries |-> Append(qs, q), lines |-> ls,
                              panic |-> FALSE]
                        ELSE getAssets(idx, account, assets, outs, i + 1,
                                 Append(qs, q),
                                 Append(ls, Line(idx, account, address, "balance",
                                     Formatted(Balance(outs[i].value, decimals)))))
          ELSE LET q == Query(idx, account, address,
                              "BorrowBalanceStored", outs[i])
               IN  IF outs[i].err
                   THEN [queries |-> Append(qs, q), lines |-> ls,
                         panic |-> FALSE]
                   ELSE IF Cmp(outs[i].value, zero) # 0
                   THEN getAssets(idx, account, assets, outs, i + 1,
                            Append(qs, q),
                            Append(ls, Line(idx, account, address, "borrowed",
                                Formatted(Balance(outs[i].value, decimals)))))
                   ELSE getAssets(idx, account, assets, outs, i + 1,
                            Append(qs, q), ls)

\* Variant of ResolveNext in which a failed balance call ends the check with
\* an error.
ResolveNext_AbortOnFailure(B) ==
    /\ ~crashed
    /\ scanPc = "resolving"
    /\ LET acc == underwaterAccounts[resolveIdx]
           assets == Deref(assetHeap, acc.Assets)
       IN  \E outs \in [1..Len(assets) -> B] :
             LET r == getAssets(resolveIdx, acc.Address, assets, outs, 1,
                                queries, lines)
             IN  /\ resolved' = Append(resolved, acc)
                 /\ queries' = r.queries
                 /\ lines' = r.lines
                 /\ crashed' = r.panic
                 /\ IF r.panic
                    THEN UNCHANGED <<scanPc, scanErr, resolveIdx>>
                    ELSE IF r.queries # <<>> /\ r.queries[Len(r.queries)].err
                    THEN /\ scanPc' = "idle"
                         /\ scanErr' = "error"
                         /\ UNCHANGED resolveIdx
                    ELSE IF resolveIdx = Len(underwaterAccounts)
                    THEN /\ scanPc' = "idle"
                         /\ scanErr' = "nil"
                         /\ UNCHANGED resolveIdx
                    ELSE /\ resolveIdx' = resolveIdx + 1
                         /\ UNCHANGED <<scanPc, scanErr>>
    /\ UNCHANGED <<readLen, borrowers, resp, underwaterAccounts,
                   aggregateCalls, lockReaders>>
    /\ UNCHANGED <<cacheVars, readSeen, cfgVars, fmtVars, startVars,
                   transactions>>

\* Variant of ResolveNext that takes a market whose balance call failed out
\* of the Borrow Markets.
ResolveNext_DropsFailedMarket(B) ==
    /\ ~crashed
    /\ scanPc = "resolving"
    /\ LET acc == underwaterAccounts[resolveIdx]
           assets == Deref(assetHeap, acc.Assets)
       IN  \E outs \in [1..Len(assets) -> B] :
             LET r == getAssets(resolveIdx, acc.Address, assets, outs, 1,
                                queries, lines)
             IN  /\ resolved' = Append(resolved, acc)
                 /\ queries' = r.queries
                 /\ lines' = r.lines
                 /\ crashed' = r.panic
                 /\ borrowMarkets' =
                    borrowMarkets \ {assets[x] : x \in {y \in 1..Len(assets) :
                                                          outs[y].err}}
                 /\ IF r.panic
                    THEN UNCHANGED <<scanPc, scanErr, resolveIdx>>
                    ELSE IF resolveIdx = Len(underwaterAccounts)
                    THEN /\ scanPc' = "idle"
                         /\ scanErr' = "nil"
                         /\ UNCHANGED resolveIdx
                    ELSE /\ resolveIdx' = resolveIdx + 1
                         /\ UNCHANGED <<scanPc, scanErr>>
    /\ UNCHANGED <<readLen, borrowers, resp, underwaterAccounts,
                   aggregateCalls, lockReaders>>
    /\ UNCHANGED <<cacheVars, readSeen, lendMarkets, underlyingInfo, fmtVars,
                   startVars, transactions>>

\* Variant of ResolveNext that sends a liquidation of the account with the
\* transaction options built in New().
ResolveNext_Liquidates(B) ==
    /\ ~crashed
    /\ scanPc = "resolving"
    /\ LET acc == underwaterAccounts[resolveIdx]
           assets == Deref(assetHeap, acc.Assets)
       IN  \E outs \in [1..Len(assets) -> B] :
             LET r == getAssets(resolveIdx, acc.Address, assets, outs, 1,
                                queries, lines)
             IN  /\ resolved' = Append(resolved, acc)
                 /\ queries' = r.queries
                 /\ lines' = r.lines
                 /\ crashed' = r.panic
                 /\ transactions' =
                    Append(transactions, [method |-> "liquidateBorrow",
                                          account |-> acc.Address])
                 /\ IF r.panic
                    THEN UNCHANGED <<scanPc, scanErr, resolveIdx>>
                    ELSE IF resolveIdx = Len(underwaterAccounts)
                    THEN /\ scanPc' = "idle"
                         /\ scanErr' = "nil"
                         /\ UNCHANGED resolveIdx
                    ELSE /\ resolveIdx' = resolveIdx + 1
                         /\ UNCHANGED <<scanPc, scanErr>>
    /\ UNCHANGED <<readLen, borrowers, resp, underwaterAccounts,
                   aggregateCalls, lockReaders>>
    /\ UNCHANGED <<cacheVars, readSeen, cfgVars, fmtVars, startVars>>

\* Variant of ResolveNext that goes through the ranked accounts from the last
\* to the first.
ResolveNext_LastFirst(B) ==
    /\ ~crashed
    /\ scanPc = "resolving"
    /\ LET acc == underwaterAccounts[Len(underwaterAccounts) + 1 - resolveIdx]
           assets == Deref(assetHeap, acc.Assets)
       IN  \E outs \in [1..Len(assets) -> B] :
             LET r == getAssets(resolveIdx, acc.Address, assets, outs, 1,
                                queries, lines)
             IN  /\ resolved' = Append(resolved, acc)
                 /\ queries' = r.queries
                 /\ lines' = r.lines
                 /\ crashed' = r.panic
                 /\ IF r.panic
                    THEN UNCHANGED <<scanPc, scanErr, resolveIdx>>
                    ELSE IF resolveIdx = Len(underwaterAccounts)
                    THEN /\ scanPc' = "idle"
                         /\ scanErr' = "nil"
                         /\ UNCHANGED resolveIdx
                    ELSE /\ resolveIdx' = resolveIdx + 1
                         /\ UNCHANGED <<scanPc, scanErr>>
    /\ UNCHANGED <<readLen, borrowers, resp, underwaterAccounts,
                   aggregateCalls, lockReaders>>
    /\ UNCHANGED <<cacheVars, readSeen, cfgVars, fmtVars, startVars,
                   transactions>>

\* ShortfallCheck: one iteration of the loop over underwaterAccounts, which
\* prints the account and calls getAssets(acc.Address, acc.Assets), whose
\* balance calls return results from B; after the last iteration the check
\* returns nil.
ResolveNext(B) ==
    /\ ~crashed
    /\ scanPc = "resolving"
    /\ LET acc == underwaterAccounts[resolveIdx]
           assets == Deref(assetHeap, acc.Assets)
       IN  \E outs \in [1..Len(assets) -> B] :
             LET r == getAssets(resolveIdx, acc.Address, assets, outs, 1,
                                queries, lines)
             IN  /\ resolved' = Append(resolved, acc)
                 /\ queries' = r.queries
                 /\ lines' = r.lines
                 /\ crashed' = r.panic
                 /\ IF r.panic
                    THEN UNCHANGED <<scanPc, scanErr, resolveIdx>>
                    ELSE IF resolveIdx = Len(underwaterAccounts)
                    THEN /\ scanPc' = "idle"
                         /\ scanErr' = "nil"
                         /\ UNCHANGED resolveIdx
                    ELSE /\ resolveIdx' = resolveIdx + 1
                         /\ UNCHANGED <<scanPc, scanErr>>
    /\ UNCHANGED <<readLen, borrowers, resp, underwaterAccounts,
                   aggregateCalls, lockReaders>>
    /\ UNCHANGED <<cacheVars, readSeen, cfgVars, fmtVars, startVars,
                   transactions>>

----------------------------------------------------------------------------
(* The whole system: the Init goroutine and the scan loop, interleaved. *)

\* Batch results explored while the cache is refreshed concurrently.
ConcurrentResults == LiquidityResults({0, 1}, 0..MaxAmount, 0..MaxAmount)

\* Balance-call results explored while the cache is refreshed concurrently.
ConcurrentBalances == {CallFailed, CallReturned(<<5>>)}

Next ==
    \/ RunStart
    \/ RunFetchFail
    \/ RunPackFail
    \/ RunFetchOk
    \/ RunAggregateFail
    \/ RunAggregateOk
    \/ RunLock
    \/ RunCommit
    \/ ReadSize
    \/ ReadLock
    \/ ReadCopy
    \/ ScanEmpty
    \/ ScanPackFail
    \/ ScanAggregateCall
    \/ ScanAggregateFail
    \/ ScanAggregateOk(ConcurrentResults)
    \/ ResolveNext(ConcurrentBalances)

Spec == Init /\ [][Next]_vars

----------------------------------------------------------------------------
(* The scan loop alone, over a primed cache: ranking of longer lists. *)

\* Batch results of the ranking specification: every entry decodes, has no
\* contract error and no liquidity.
RankResults ==
    [ok : {TRUE}, cErr : {0}, liquidity : {0}, shortfall : 0..MaxRankAmount]

\* A snapshot of n borrowers 1..n has been committed by the first run() and
\* the Init goroutine waits for its next tick.
InitRank ==
    /\ \E n \in 0..MaxRankLen :
          /\ cacheBorrowers = [i \in 1..n |-> Borrower(i, i, NilShortfall)]
          /\ assetHeap = [i \in 1..n |-> <<>>]
    /\ lockWriter = FALSE
    /\ lockReaders = 0
    /\ runPc = "idle"
    /\ runBorrowers = <<>>
    /\ newBorrowers = <<>>
    /\ runErr = "nil"
    /\ runCount = 1
    /\ scanPc = "idle"
    /\ readLen = 0
    /\ readSeen = {}
    /\ borrowers = <<>>
    /\ resp = <<>>
    /\ underwaterAccounts = <<>>
    /\ resolveIdx = 0
    /\ resolved = <<>>
    /\ aggregateCalls = 0
    /\ scanErr = "none"
    /\ crashed = FALSE
    /\ runData = <<>>
    /\ commits = 1
    /\ NewMarkets(ConcurrentMarkets)
    /\ queries = <<>>
    /\ lines = <<>>
    /\ balance = ZeroBalance
    /\ rendered = NotRendered

NextRank ==
    \/ ReadSize
    \/ ReadLock
    \/ ReadCopy
    \/ ScanEmpty
    \/ ScanPackFail
    \/ ScanAggregateCall
    \/ ScanAggregateFail
    \/ ScanAggregateOk(RankResults)
    \/ ResolveNext(ConcurrentBalances)

SpecRank == InitRank /\ [][NextRank]_vars

----------------------------------------------------------------------------
(* The scan loop alone, over a primed cache: what getAssets asks and prints. *)

ScanMarkets == 1..NumScanMarkets

\* Market lists getAssetsIn can return: distinct markets.
ScanAssetLists ==
    {a \in SeqsUpTo(ScanMarkets, MaxScanAssets) : IsInjective(a)}

\* Any subset of the markets was listed at start-up; an underlying token has
\* 18 decimals or 7.
ScanMarketMaps == MarketMaps(SUBSET ScanMarkets, {18, 7})

\* Batch results of the resolving specification: every account is
\* underwater.
ScanResults == [ok : {TRUE}, cErr : {0}, liquidity : {0}, shortfall : {1}]

\* A balance call fails, returns zero or returns a positive amount.
ScanBalances == {CallFailed, CallReturned(zero), CallReturned(<<7>>)}

\* A snapshot of n borrowers 1..n with their market lists has been committed
\* by the first run() and the Init goroutine waits for its next tick.
InitScan ==
    /\ \E n \in 0..MaxScanBorrowers :
          /\ cacheBorrowers = [i \in 1..n |-> Borrower(i, i, NilShortfall)]
          /\ assetHeap \in [1..n -> ScanAssetLists]
    /\ NewMarkets(ScanMarketMaps)
    /\ runErr = "nil"
    /\ runCount = 1
    /\ commits = 1
    /\ lockWriter = FALSE
    /\ lockReaders = 0
    /\ runPc = "idle"
    /\ runBorrowers = <<>>
    /\ newBorrowers = <<>>
    /\ runData = <<>>
    /\ scanPc = "idle"
    /\ readLen = 0
    /\ readSeen = {}
    /\ borrowers = <<>>
    /\ resp = <<>>
    /\ underwaterAccounts = <<>>
    /\ resolveIdx = 0
    /\ resolved = <<>>
    /\ aggregateCalls = 0
    /\ scanErr = "none"
    /\ crashed = FALSE
    /\ queries = <<>>
    /\ lines = <<>>
    /\ balance = ZeroBalance
    /\ rendered = NotRendered

NextScan ==
    \/ ReadSize
    \/ ReadLock
    \/ ReadCopy
    \/ ScanEmpty
    \/ ScanPackFail
    \/ ScanAggregateCall
    \/ ScanAggregateFail
    \/ ScanAggregateOk(ScanResults)
    \/ ResolveNext(ScanBalances)

SpecScan == InitScan /\ [][NextScan]_vars

----------------------------------------------------------------------------
(* Balance.String alone, over a family of raw amounts. *)

\* Raw amounts: a leading part followed by up to MaxFill equal digits, and
\* zero.
FormatValues ==
    {h \o [i \in 1..k |-> f] :
        h \in {<<1>>, <<9>>, <<1, 2>>, <<5, 0>>, <<9, 9>>},
        f \in {0, 9}, k \in 0..MaxFill}
    \cup {zero, <<1, 2, 3, 4, 5, 6, 7, 8, 9, 0, 1, 2, 3, 4, 5, 6, 7, 8, 9>>}

\* Decimals of an underlying token: the four supported values, the zero
\* value of a missing underlyingInfo entry, and another unsupported one.
FormatDecimals == {6, 8, 9, 18, 0, 7}

InitFormat ==
    /\ balance \in {Balance(v, d) : v \in FormatValues, d \in FormatDecimals}
    /\ rendered = NotRendered
    /\ cacheBorrowers = <<>>
    /\ assetHeap = <<>>
    /\ NewMarkets(ConcurrentMarkets)
    /\ runErr = "none"
    /\ runCount = 0
    /\ commits = 0
    /\ lockWriter = FALSE
    /\ lockReaders = 0
    /\ runPc = "idle"
    /\ runBorrowers = <<>>
    /\ newBorrowers = <<>>
    /\ runData = <<>>
    /\ scanPc = "idle"
    /\ readLen = 0
    /\ readSeen = {}
    /\ borrowers = <<>>
    /\ resp = <<>>
    /\ underwaterAccounts = <<>>
    /\ resolveIdx = 0
    /\ resolved = <<>>
    /\ aggregateCalls = 0
    /\ scanErr = "none"
    /\ crashed = FALSE
    /\ queries = <<>>
    /\ lines = <<>>

NextFormat == BalanceString

SpecFormat == InitFormat /\ [][NextFormat]_vars

----------------------------------------------------------------------------
(* New() alone, over a family of ledgers. *)

\* Ledgers: any list of distinct markets, each with total borrows of zero,
\* one or 25 and an underlying token of 6, 7 or 18 decimals.
NewLedgers ==
    UNION {{Ledger(ms, tb, dc) :
               tb \in [{ms[i] : i \in 1..Len(ms)} -> {zero, <<1>>, <<2, 5>>}],
               dc \in [{ms[i] : i \in 1..Len(ms)} -> {6, 7, 18}]} :
           ms \in {a \in SeqsUpTo(ScanMarkets, NumScanMarkets) : IsInjective(a)}}

InitNew == Fresh(NewLedgers)

NextNew ==
    \/ NewFail
    \/ NewOk

SpecNew == InitNew /\ [][NextNew]_vars

----------------------------------------------------------------------------
(* The whole system from the call of New() on. *)

\* The ledger lists every market, each with borrows and 18 decimals.
StartLedgers ==
    {Ledger(Ascending(Markets), [a \in Markets |-> <<1>>],
            [a \in Markets |-> 18])}

\* Batch results explored from start-up on: an entry fails to decode, or it
\* has no contract error, no liquidity and a shortfall of 0 or 1.
StartResults == LiquidityResults({0}, {0}, {0, 1})

InitStart == Fresh(StartLedgers)

NextStart ==
    \/ NewFail
    \/ NewOk
    \/ RunStart
    \/ RunFetchFail
    \/ RunPackFail
    \/ RunFetchOk
    \/ RunAggregateFail
    \/ RunAggregateOk
    \/ RunLock
    \/ RunCommit
    \/ ReadSize
    \/ ReadLock
    \/ ReadCopy
    \/ ScanEmpty
    \/ ScanPackFail
    \/ ScanAggregateCall
    \/ ScanAggregateFail
    \/ ScanAggregateOk(StartResults)
    \/ ResolveNext(ConcurrentBalances)

SpecStart == InitStart /\ [][NextStart]_vars

----------------------------------------------------------------------------
(* The scan loop of either main, over a primed cache: what triggers it. *)

\* main runs ShortfallCheck on a timer, or it is about to call
\* SubscribeToBlocks.
Mains == {NoSubscription, Subscription("new", 0, 0, 0)}

\* A snapshot has been committed by the first run() and the Init goroutine
\* waits for its next tick.
InitBlocks ==
    /\ \E list \in BorrowerLists :
          /\ cacheBorrowers =
                [i \in 1..Len(list) |-> Borrower(list[i], i, NilShortfall)]
          /\ assetHeap \in [1..Len(list) -> AssetLists]
    /\ Started(ConcurrentMarkets, Mains)
    /\ runErr = "nil"
    /\ runCount = 1
    /\ commits = 1
    /\ lockWriter = FALSE
    /\ lockReaders = 0
    /\ runPc = "idle"
    /\ runBorrowers = <<>>
    /\ newBorrowers = <<>>
    /\ runData = <<>>
    /\ scanPc = "idle"
    /\ readLen = 0
    /\ readSeen = {}
    /\ borrowers = <<>>
    /\ resp = <<>>
    /\ underwaterAccounts = <<>>
    /\ resolveIdx = 0
    /\ resolved = <<>>
    /\ aggregateCalls = 0
    /\ scanErr = "none"
    /\ crashed = FALSE
    /\ queries = <<>>
    /\ lines = <<>>
    /\ balance = ZeroBalance
    /\ rendered = NotRendered

NextBlocks ==
    \/ SubscribeOk
    \/ SubscribeFail
    \/ NewBlock
    \/ SubscriptionError
    \/ ReceiveSubErr
    \/ ProcessBlock
    \/ ReadSize
    \/ ReadLock
    \/ ReadCopy
    \/ ScanEmpty
    \/ ScanPackFail
    \/ ScanAggregateCall
    \/ ScanAggregateFail
    \/ ScanAggregateOk(ConcurrentResults)
    \/ ResolveNext(ConcurrentBalances)

SpecBlocks == InitBlocks /\ [][NextBlocks]_vars

----------------------------------------------------------------------------
(* The Init goroutine alone, with batches of any length. *)

NextBatch ==
    \/ RunStart
    \/ RunFetchFail
    \/ RunPackFail
    \/ RunFetchOk
    \/ RunAggregateFail
    \/ RunAggregateOk
    \/ RunAggregateMiscounted
    \/ RunLock
    \/ RunCommit

SpecBatch == Init /\ [][NextBatch]_vars

----------------------------------------------------------------------------
(* Properties *)

\* The batch of the current scan cycle was returned and every entry decoded.
Classified == resp # <<>> /\ \A i \in 1..Len(resp) : resp[i].ok

\* Result i has no contract error and liquidity below shortfall.
Underwater(i) == resp[i].cErr = 0 /\ resp[i].liquidity < resp[i].shortfall

\* The Borrower the scan emits for position i when it is underwater.
Emitted(i) ==
    Borrower(borrowers[i].Address, borrowers[i].Assets, resp[i].shortfall)

\* Number of entries of underwaterAccounts equal to e.
Occurrences(e) ==
    Cardinality({k \in 1..Len(underwaterAccounts) : underwaterAccounts[k] = e})

\* Position i is in underwaterAccounts: there are more entries equal to its
\* Borrower than the other underwater positions account for.
IsEmitted(i) ==
    Occurrences(Emitted(i)) >
    Cardinality({j \in 1..Len(resp) :
                    j # i /\ Underwater(j) /\ Emitted(j) = Emitted(i)})

SortedDescending(a) ==
    \A i, j \in 1..Len(a) : i < j => a[i].Shortfall >= a[j].Shortfall

\* C1: the sequence Read() returns is one of the snapshots that were the
\* committed one while Read() ran (the one before a concurrent refresh or
\* the one it committed), never a mixture.
C1_SnapshotAtomicity ==
    scanPc = "read" => View(assetHeap, borrowers) \in readSeen

\* C2: a run() that returns an error leaves the committed snapshot as it
\* was, and the snapshot only ever changes to the complete newBorrowers of a
\* run() that succeeds: one entry per fetched borrower, each unpacked.
C2_FailedRefreshKeepsSnapshot ==
    [][/\ (runPc # "idle" /\ runPc' = "idle" /\ runErr' = "error")
          => /\ cacheBorrowers' = cacheBorrowers
             /\ View(assetHeap', cacheBorrowers') =
                View(assetHeap, cacheBorrowers)
       /\ cacheBorrowers' # cacheBorrowers
          => /\ runPc = "locked" /\ runErr' = "nil"
             /\ Len(cacheBorrowers') = Len(runBorrowers)
             /\ \A i \in 1..Len(runBorrowers) :
                   /\ cacheBorrowers'[i].Address = runBorrowers[i]
                   /\ cacheBorrowers'[i].Assets # NilRef]_vars

C2_Witness ==
    runPc = "idle" /\ runErr = "error" /\ Len(cacheBorrowers) > 0

\* C3: for every result with error code 0 the borrower at that position is
\* emitted as underwater iff liquidity < shortfall.
C3_UnderwaterIffLiquidityBelowShortfall ==
    Classified =>
        \A i \in 1..Len(resp) :
            resp[i].cErr = 0 =>
                (IsEmitted(i) <=> resp[i].liquidity < resp[i].shortfall)

C3_Witness ==
    /\ Classified
    /\ \E i, j \in 1..Len(resp) :
          /\ resp[i].cErr = 0 /\ resp[i].shortfall > 0
          /\ resp[i].liquidity >= resp[i].shortfall
          /\ resp[j].cErr = 0 /\ resp[j].liquidity > 0
          /\ resp[j].liquidity < resp[j].shortfall
          /\ IsEmitted(j) /\ ~IsEmitted(i)

\* C4: a result with a nonzero error code is skipped whatever its liquidity
\* and shortfall; the other entries are still classified and the scan does
\* not return an error because of it.
C4_ContractErrorSkipsOnlyThatEntry ==
    Classified =>
        /\ \A i \in 1..Len(resp) : resp[i].cErr # 0 => ~IsEmitted(i)
        /\ Len(underwaterAccounts) =
           Cardinality({j \in 1..Len(resp) : Underwater(j)})
        /\ scanErr # "error"

C4_Witness ==
    /\ Classified
    /\ scanPc = "idle" /\ scanErr = "nil"
    /\ \E i, j \in 1..Len(resp) :
          /\ resp[i].cErr # 0 /\ resp[i].liquidity < resp[i].shortfall
          /\ Underwater(j)
          /\ i < j
    /\ Len(resolved) = 1

\* C5: the underwater accounts a scan reports are in descending order of
\* shortfall.
C5_RankedByShortfallDescending ==
    /\ Classified => SortedDescending(underwaterAccounts)
    /\ SortedDescending(resolved)

C5_Witness ==
    /\ Classified
    /\ scanErr = "nil"
    /\ Len(resolved) >= 3
    /\ resolved = underwaterAccounts
    /\ resolved[1].Shortfall > resolved[Len(resolved)].Shortfall
    /\ \E i, j \in 1..Len(resp) :
          i < j /\ 0 < resp[i].shortfall /\ resp[i].shortfall < resp[j].shortfall

\* C6: the ranking is stable: two underwater accounts with equal shortfall
\* are reported in the order they have in the borrower snapshot.
C6_RankingStable ==
    Classified =>
        \A i, j \in 1..Len(underwaterAccounts) :
            (i < j /\ underwaterAccounts[i].Shortfall =
                      underwaterAccounts[j].Shortfall)
            => \A p, q \in 1..Len(borrowers) :
                  (/\ borrowers[p].Address = underwaterAccounts[i].Address
                   /\ borrowers[q].Address = underwaterAccounts[j].Address)
                  => p < q

\* C7: every emitted Borrower carries the address and the market list of
\* input borrower i and the shortfall of result i, for one underwater
\* position i.
C7_PositionalCorrespondence ==
    Classified =>
        \A k \in 1..Len(underwaterAccounts) :
            \E i \in 1..Len(resp) :
                /\ Underwater(i)
                /\ underwaterAccounts[k].Address = borrowers[i].Address
                /\ underwaterAccounts[k].Assets = borrowers[i].Assets
                /\ underwaterAccounts[k].Shortfall = resp[i].shortfall

C7_Witness ==
    /\ Classified
    /\ Len(underwaterAccounts) = 1
    /\ Len(borrowers) = 2
    /\ Underwater(2) /\ ~Underwater(1)
    /\ resp[1].shortfall # resp[2].shortfall
    /\ borrowers[1].Address # borrowers[2].Address
    /\ Deref(assetHeap, borrowers[1].Assets) #
       Deref(assetHeap, borrowers[2].Assets)

\* C8: a scan whose Read() returned an empty slice returns nil with no
\* underwater account, no Aggregate call and no getAssets call.
C8_EmptySnapshotNoScanWork ==
    /\ (scanPc \in {"read", "idle"} /\ Len(borrowers) = 0)
       => /\ aggregateCalls = 0
          /\ resolved = <<>>
          /\ underwaterAccounts = <<>>
          /\ scanErr \in {"none", "nil"}
    /\ scanPc \in {"aggregating", "resolving"} => Len(borrowers) > 0

C8_Witness ==
    /\ scanPc = "idle" /\ scanErr = "nil"
    /\ Len(borrowers) = 0
    /\ runErr = "error"

\* C9: when Aggregate fails in a scan the scan returns an error, no
\* underwater account is reported and getAssets is called for none; when
\* Aggregate fails in a refresh no snapshot is committed by that run().
C9_AggregateFailureAbortsCycle ==
    [][/\ (scanPc = "aggregating" /\ scanPc' # "aggregating" /\ resp' = <<>>)
          => /\ scanPc' = "idle" /\ scanErr' = "error"
             /\ underwaterAccounts' = <<>> /\ resolved' = <<>>
       /\ (runPc = "aggregating" /\ runPc' = "idle")
          => /\ runErr' = "error"
             /\ cacheBorrowers' = cacheBorrowers]_vars

C9_Witness ==
    /\ scanPc = "idle" /\ scanErr = "error"
    /\ aggregateCalls = 1 /\ resp = <<>>
    /\ runPc = "idle" /\ runErr = "error" /\ Len(cacheBorrowers) > 0

\* C10: once Read() has returned, nothing a refresh does changes an address
\* or a market list of the sequence the reader holds.
C10_ReadResultIndependent ==
    [][(scanPc \in {"read", "aggregating", "resolving"}
        /\ borrowers' = borrowers)
       => View(assetHeap', borrowers') = View(assetHeap, borrowers)]_vars

C10_Witness ==
    /\ scanPc \in {"aggregating", "resolving"}
    /\ runPc = "idle" /\ runErr = "nil" /\ runCount = 2
    /\ Len(cacheBorrowers) > 0
    /\ \A i \in 1..Len(borrowers), j \in 1..Len(cacheBorrowers) :
          borrowers[i].Assets # cacheBorrowers[j].Assets
    /\ \E i \in 1..Len(borrowers) :
          /\ borrowers[i].Assets # NilRef
          /\ \E j \in 1..Len(cacheBorrowers) :
                /\ cacheBorrowers[j].Address = borrowers[i].Address
                /\ Deref(assetHeap, cacheBorrowers[j].Assets) #
                   Deref(assetHeap, borrowers[i].Assets)

\* C11: while run() waits for GetAllBorrowers or for Aggregate the write
\* lock is not held, so a Read() is not kept out: a trigger can start it, it
\* is granted the read lock, and holding the lock it can copy and return.
C11_NoLockDuringNetworkCalls ==
    (runPc \in {"fetching", "aggregating"} /\ ~crashed)
    => /\ ~lockWriter
       /\ scanPc = "idle" => ENABLED ReadSize
       /\ scanPc = "sized" => ENABLED ReadLock
       /\ scanPc = "rlocked" => ENABLED ReadCopy

C11_Witness ==
    /\ runPc = "aggregating"
    /\ scanPc = "rlocked" /\ lockReaders = 1
    /\ ~crashed

\* C12: neither loop waits for the other's network call.  While run() is
\* at GetAllBorrowers or Aggregate, however long, the scan loop can take its
\* next step wherever it is, and a Read() that met one snapshot throughout
\* returns; while ShortfallCheck is at Aggregate or at the balance calls of
\* getAssets it holds no lock and run() can take its next step up to and
\* including the commit.
C12_LoopsDoNotBlockEachOther ==
    ~crashed
    => /\ runPc \in {"fetching", "aggregating"}
          => /\ scanPc = "idle" => ENABLED ReadSize
             /\ scanPc = "sized" => ENABLED ReadLock
             /\ (scanPc = "rlocked" /\ Cardinality(readSeen) = 1)
                => ~CopyBorrowers([i \in 1..readLen |-> ZeroBorrower],
                                  cacheBorrowers, 1).panic
             /\ scanPc = "read"
                => ENABLED (ScanEmpty \/ ScanPackFail \/ ScanAggregateCall)
             /\ scanPc = "resolving" => ENABLED ResolveNext(ConcurrentBalances)
       /\ scanPc \in {"aggregating", "resolving"}
          => /\ lockReaders = 0
             /\ (runPc = "idle" /\ runCount < MaxRuns) => ENABLED RunStart
             /\ runPc = "locking" => ENABLED RunLock
             /\ runPc = "locked" => ENABLED RunCommit

C12_Witness ==
    /\ scanPc = "aggregating" /\ ~crashed
    /\ runPc = "idle" /\ runErr = "nil" /\ commits = 2
    /\ View(assetHeap, borrowers) # View(assetHeap, cacheBorrowers)

\* C13: a run() that returned an error, the one at start-up included, leaves
\* the Init goroutine in its loop: it waits for the next tick, and the next
\* tick starts another run().
C13_FailedRefreshIsRetried ==
    (runErr = "error" /\ ~crashed)
    => /\ runPc \in {"idle", "fetching", "aggregating", "locking", "locked"}
       /\ (runPc = "idle" /\ runCount < MaxRuns) => ENABLED RunStart

C13_Witness ==
    /\ runCount = 2 /\ commits = 1
    /\ runPc = "idle" /\ runErr = "nil"
    /\ Len(cacheBorrowers) > 0

\* C14: a ShortfallCheck that returned an error leaves the trigger loop
\* waiting for the next trigger, and the step the scan loop takes next is a
\* new ShortfallCheck whose Read() sizes its result from the cache as it is
\* then and starts from nothing of the failed cycle.
C14_ScanErrorAbsorbed ==
    [][/\ scanErr' = "error" => (scanPc' = "idle" /\ ~crashed')
       /\ (scanErr = "error" /\ scanPc' # scanPc)
          => /\ scanPc' = "sized"
             /\ readLen' = Len(cacheBorrowers)
             /\ readSeen' = {View(assetHeap, cacheBorrowers)}
             /\ borrowers' = <<>> /\ resp' = <<>>
             /\ underwaterAccounts' = <<>> /\ resolved' = <<>>
             /\ scanErr' = "none" /\ ~crashed']_vars

C14_Witness ==
    /\ scanPc = "idle" /\ scanErr = "error" /\ ~crashed
    /\ aggregateCalls = 1
    /\ Len(cacheBorrowers) # Len(borrowers)

\* C15: as long as no run() has returned nil the cache is empty and what
\* Read() returns is empty.
C15_EmptyBeforeFirstCommit ==
    commits = 0
    => /\ cacheBorrowers = <<>>
       /\ scanPc \notin {"sized", "rlocked"} => borrowers = <<>>
       /\ scanPc = "rlocked"
          => LET c == CopyBorrowers([i \in 1..readLen |-> ZeroBorrower],
                                    cacheBorrowers, 1)
             IN  ~c.panic /\ c.borrowers = <<>>

C15_Witness ==
    /\ commits = 0 /\ runCount = 2 /\ runErr = "error"
    /\ scanPc = "read" /\ borrowers = <<>>

\* C16: a Read() during which the committed snapshot was one and the same
\* throughout (it started after that snapshot's commit and no later commit
\* came before it returned) returns exactly that snapshot.
C16_ReadReturnsLatestCommit ==
    (~Reading /\ Cardinality(readSeen) = 1)
    => View(assetHeap, borrowers) \in readSeen

C16_Witness ==
    /\ scanPc = "read" /\ commits = 2
    /\ Cardinality(readSeen) = 1
    /\ Len(borrowers) > 0
    /\ \E i \in 1..Len(borrowers) : borrowers[i].Assets = Len(assetHeap)
    /\ Len(assetHeap) > Len(borrowers)

\* C17: the commit of a run() replaces the whole snapshot: the new one has
\* one entry per fetched borrower, entry i holding fetched address i and the
\* market list decoded from result i, and nothing of the old snapshot.
C17_CommitReplacesSnapshot ==
    [][(runPc = "locked" /\ runPc' = "idle")
       => /\ Len(cacheBorrowers') = Len(runBorrowers)
          /\ Len(runData) = Len(runBorrowers)
          /\ \A i \in 1..Len(runBorrowers) :
                /\ cacheBorrowers'[i].Address = runBorrowers[i]
                /\ Deref(assetHeap', cacheBorrowers'[i].Assets) =
                   runData[i].assets
                /\ cacheBorrowers'[i].Shortfall = NilShortfall]_vars

C17_Witness ==
    /\ commits = 2 /\ runPc = "idle" /\ runErr = "nil"
    /\ Len(cacheBorrowers) = 1
    /\ Len(assetHeap) = 3

\* The balance calls of the k-th getAssets invocation of the cycle, in the
\* order made, and the lines it printed.
QueriesOf(k) == SelectSeq(queries, LAMBDA q : q.idx = k)

LinesOf(k) == SelectSeq(lines, LAMBDA l : l.idx = k)

\* The k-th getAssets invocation came to its end or to a failed call.
Returned(k) ==
    /\ k <= Len(resolved)
    /\ ~(crashed /\ k = Len(resolved))

FailedIn(k) == \E p \in 1..Len(QueriesOf(k)) : QueriesOf(k)[p].err

\* C18: getAssets goes through the account's listed markets in order; for a
\* Borrow Market it calls BorrowBalanceStored and prints a borrowed line
\* exactly when the balance is not zero, for any other market it calls
\* BalanceOfUnderlying and prints a balance line.
C18_ResolverQueriesAndReports ==
    \A k \in 1..Len(resolved) :
        LET assets == Deref(assetHeap, resolved[k].Assets)
            qs == QueriesOf(k)
            ls == LinesOf(k)
            reported == {p \in 1..Len(qs) :
                            /\ ~qs[p].err
                            /\ qs[p].method = "BorrowBalanceStored"
                               => qs[p].value # zero}
        IN  /\ Len(qs) <= Len(assets)
            /\ (Returned(k) /\ ~FailedIn(k)) => Len(qs) = Len(assets)
            /\ \A p \in 1..Len(qs) :
                  /\ qs[p].market = assets[p]
                  /\ qs[p].account = resolved[k].Address
                  /\ qs[p].method = IF assets[p] \in borrowMarkets
                                    THEN "BorrowBalanceStored"
                                    ELSE "BalanceOfUnderlying"
            /\ Len(ls) = Cardinality(reported)
            /\ \A p \in reported :
                  LET n == Cardinality({x \in reported : x <= p})
                  IN  /\ ls[n].market = qs[p].market
                      /\ ls[n].account = qs[p].account
                      /\ ls[n].kind = IF qs[p].method = "BorrowBalanceStored"
                                      THEN "borrowed" ELSE "balance"

C18_Witness ==
    /\ scanPc = "idle" /\ scanErr = "nil" /\ ~crashed
    /\ borrowMarkets = {1} /\ lendMarkets = {1, 2}
    /\ \E k \in 1..Len(resolved) :
          /\ Deref(assetHeap, resolved[k].Assets) = <<1, 2>>
          /\ Len(QueriesOf(k)) = 2
          /\ QueriesOf(k)[1].value = zero
          /\ Len(LinesOf(k)) = 1
          /\ LinesOf(k)[1].kind = "balance"
    /\ \E k \in 1..Len(resolved) :
          /\ Len(LinesOf(k)) = 2
          /\ LinesOf(k)[1].kind = "borrowed"

\* C19: a failed balance call is the last thing its getAssets invocation
\* does, and nothing else stops: the loop goes on to the accounts ranked
\* after it, every underwater account gets its getAssets invocation, and
\* ShortfallCheck returns nil.
C19_QueryFailureSkipsRestOfAccountOnly ==
    (~crashed /\ \E k \in 1..Len(resolved) : FailedIn(k))
    => /\ \A k \in 1..Len(resolved) :
             \A p \in 1..Len(QueriesOf(k)) :
                 QueriesOf(k)[p].err => p = Len(QueriesOf(k))
       /\ \A k \in 1..Len(resolved) :
             resolved[k] = underwaterAccounts[k]
       /\ \/ /\ scanPc = "resolving"
             /\ resolveIdx = Len(resolved) + 1
          \/ /\ scanPc = "idle" /\ scanErr = "nil"
             /\ Len(resolved) = Len(underwaterAccounts)

C19_Witness ==
    /\ scanPc = "idle" /\ scanErr = "nil" /\ ~crashed
    /\ Len(underwaterAccounts) = 2 /\ Len(resolved) = 2
    /\ Len(Deref(assetHeap, resolved[1].Assets)) = 2
    /\ Len(QueriesOf(1)) = 1 /\ QueriesOf(1)[1].err
    /\ Len(QueriesOf(2)) = 2 /\ Len(LinesOf(2)) = 2

\* a + 1 on digits.
RECURSIVE Succ(_)
Succ(a) ==
    IF a = <<>> THEN <<1>>
    ELSE IF a[Len(a)] < 9
    THEN [a EXCEPT ![Len(a)] = a[Len(a)] + 1]
    ELSE Append(Succ(SubSeq(a, 1, Len(a) - 1)), 0)

\* a * 10^d on digits.
Shift(a, d) == norm(a \o [i \in 1..d |-> 0])

\* text is the decimal numeral of a non-negative integer: digits only, no
\* leading zero except for "0" itself.
IsNumeral(text) ==
    /\ Len(text) >= 1
    /\ \A i \in 1..Len(text) : \E d \in 0..9 : DigitChars[d + 1] = text[i]
    /\ Len(text) > 1 => text[1] # "0"

\* The number a numeral denotes.
Parse(text) ==
    [i \in 1..Len(text) |-> CHOOSE d \in 0..9 : DigitChars[d + 1] = text[i]]

\* C20: for a non-negative raw amount and 6, 8, 9 or 18 decimals
\* Balance.String returns the decimal numeral of the integer q with
\* q * 10^decimals <= raw < (q + 1) * 10^decimals; 1234567890123456789 at
\* 18 decimals gives "1" and 999999 at 6 decimals gives "0".
C20_StringIsFloorQuotient ==
    (rendered.done /\ balance.decimals \in {6, 8, 9, 18})
    => /\ ~rendered.panic
       /\ IsNumeral(rendered.text)
       /\ LET q == Parse(rendered.text)
          IN  /\ Cmp(Shift(q, balance.decimals), balance.value) # 1
              /\ Cmp(balance.value, Shift(Succ(q), balance.decimals)) = -1
       /\ balance = Balance(<<1, 2, 3, 4, 5, 6, 7, 8, 9, 0,
                              1, 2, 3, 4, 5, 6, 7, 8, 9>>, 18)
          => rendered.text = <<"1">>
       /\ balance = Balance(<<9, 9, 9, 9, 9, 9>>, 6)
          => rendered.text = <<"0">>

C20_Witness ==
    /\ rendered.done
    /\ balance = Balance(<<1, 2>> \o [i \in 1..10 |-> 9], 9)
    /\ rendered.text = <<"1", "2", "9">>

\* Decimals Balance.String has a divider for.
Supported == {6, 8, 9, 18}

\* C21: a balance of a market whose underlying token has decimals other than
\* 6, 8, 9 or 18 fails in that one formatting call only: its line carries
\* the error text and no number, the account's remaining markets are still
\* queried, the loop goes on to the accounts ranked after it, and the
\* process is not ended by it.
C21_UnsupportedDecimalsFailOneLine ==
    \A k \in 1..Len(resolved) :
        LET qs == QueriesOf(k)
            ls == LinesOf(k)
            assets == Deref(assetHeap, resolved[k].Assets)
            last == Deref(assetHeap, resolved[Len(resolved)].Assets)
            reported == {p \in 1..Len(qs) :
                            /\ ~qs[p].err
                            /\ qs[p].method = "BorrowBalanceStored"
                               => qs[p].value # zero}
        IN  \A p \in reported :
                underlyingInfo[qs[p].market] \notin Supported
                => /\ Len(ls) = Cardinality(reported)
                   /\ \A o \in reported :
                         LET l == ls[Cardinality({x \in reported : x <= o})]
                         IN  /\ l.market = qs[o].market
                             /\ IF underlyingInfo[l.market] \in Supported
                                THEN IsNumeral(l.text)
                                ELSE /\ l.text = PanicText
                                     /\ ~IsNumeral(l.text)
                   /\ (Returned(k) /\ ~FailedIn(k))
                      => Len(qs) = Len(assets)
                   /\ crashed
                      => \E x \in 1..Len(last) : last[x] \notin lendMarkets
                   /\ ~crashed
                      => \/ /\ scanPc = "resolving"
                            /\ resolveIdx = Len(resolved) + 1
                         \/ /\ scanPc = "idle" /\ scanErr = "nil"
                            /\ Len(resolved) = Len(underwaterAccounts)

C21_Witness ==
    /\ scanPc = "idle" /\ scanErr = "nil" /\ ~crashed
    /\ Len(resolved) = 2
    /\ underlyingInfo = (1 :> 7) @@ (2 :> 18)
    /\ Len(LinesOf(1)) = 2
    /\ LinesOf(1)[1].text = PanicText
    /\ LinesOf(1)[2].text = <<"0">>
    /\ Len(LinesOf(2)) >= 1

\* The markets the comptroller lists.
Listed(c) == {c.markets[i] : i \in 1..Len(c.markets)}

\* C22: once New() has succeeded, the Borrow Markets are exactly the markets
\* listed at start-up whose total borrows are greater than zero, the Lend
\* Markets are all the listed markets, every Borrow Market is a Lend Market,
\* and there is underlying info for every Lend Market.
C22_MarketMapsAfterNew ==
    newPc = "done"
    => /\ \A market \in ScanMarkets :
             market \in borrowMarkets
             <=> /\ market \in Listed(chain)
                 /\ Cmp(chain.totalBorrows[market], zero) = 1
       /\ lendMarkets = Listed(chain)
       /\ borrowMarkets \subseteq lendMarkets
       /\ DOMAIN underlyingInfo = lendMarkets
       /\ \A market \in lendMarkets :
             underlyingInfo[market] = chain.decimals[market]

C22_Witness ==
    /\ newPc = "done"
    /\ chain.markets = <<2, 1>>
    /\ chain.totalBorrows = (1 :> zero) @@ (2 :> <<2, 5>>)
    /\ borrowMarkets = {2}
    /\ lendMarkets = {1, 2}
    /\ underlyingInfo = (1 :> 6) @@ (2 :> 7)

\* C23: BorrowMarkets, LendMarkets and the underlying info are written by
\* New() only, before the Init goroutine of the cache has run and before the
\* first scan has read the cache; no step after start-up changes them.
C23_MarketMapsFrozenAfterNew ==
    [][/\ newPc = "done" => cfgVars' = cfgVars
       /\ cfgVars' # cfgVars
          => /\ newPc = "new" /\ newPc' = "done"
             /\ runCount = 0 /\ runPc = "idle" /\ commits = 0
             /\ scanPc = "idle" /\ scanErr = "none" /\ readSeen = {}
             /\ aggregateCalls = 0]_vars

C23_Witness ==
    /\ newPc = "done"
    /\ commits = 2
    /\ scanPc = "idle" /\ scanErr = "nil"
    /\ \E k \in 1..Len(resolved) : FailedIn(k)
    /\ borrowMarkets = {1} /\ lendMarkets = {1}
    /\ underlyingInfo = (1 :> 18)

\* C24: the committed snapshot is written by the commit of a refresh only;
\* no step of a scan cycle changes it, whether the cycle ends with nil, with
\* an error or with a crash.
C24_OnlyRefreshWritesSnapshot ==
    [][/\ View(assetHeap', cacheBorrowers') # View(assetHeap, cacheBorrowers)
          => /\ runPc = "locked" /\ runPc' = "idle"
             /\ commits' = commits + 1
             /\ scanVars' = scanVars
       /\ (scanVars' # scanVars \/ lockReaders' # lockReaders
           \/ crashed' # crashed)
          => /\ cacheBorrowers' = cacheBorrowers
             /\ View(assetHeap', cacheBorrowers') =
                View(assetHeap, cacheBorrowers)]_vars

C24_Witness ==
    /\ scanPc = "idle" /\ scanErr = "nil"
    /\ resolved # <<>>
    /\ commits = 1
    /\ cacheBorrowers # <<>>
    /\ readSeen = {View(assetHeap, cacheBorrowers)}

\* C25: every borrower of the committed snapshot and every borrower Read()
\* returns has no shortfall set; a shortfall is set on the accounts a scan
\* emits as underwater only, and it is the shortfall the batch result gave.
C25_ShortfallOnlyOnEmitted ==
    /\ \A i \in 1..Len(cacheBorrowers) :
          cacheBorrowers[i].Shortfall = NilShortfall
    /\ \A i \in 1..Len(newBorrowers) :
          newBorrowers[i].Shortfall = NilShortfall
    /\ \A i \in 1..Len(borrowers) : borrowers[i].Shortfall = NilShortfall
    /\ \A i \in 1..Len(underwaterAccounts) :
          /\ underwaterAccounts[i].Shortfall # NilShortfall
          /\ \E j \in 1..Len(resp) :
                /\ resp[j].ok
                /\ resp[j].shortfall = underwaterAccounts[i].Shortfall
                /\ borrowers[j].Address = underwaterAccounts[i].Address
    /\ \A i \in 1..Len(resolved) : resolved[i].Shortfall # NilShortfall

C25_Witness ==
    /\ scanPc = "idle" /\ scanErr = "nil"
    /\ Len(resolved) = 1
    /\ resolved[1].Shortfall = 1
    /\ Len(borrowers) = 1
    /\ Len(cacheBorrowers) = 1
    /\ cacheBorrowers[1].Address = resolved[1].Address
    /\ commits = 1

\* C26: while an underwater account of a scan still waits for its getAssets
\* call, the committed snapshot is the one the scan read: no refresh has
\* overwritten it.
C26_ResolveBeforeNextCommit ==
    (scanPc = "resolving" /\ Len(resolved) < Len(underwaterAccounts)
     /\ Cardinality(readSeen) = 1)
    => View(assetHeap, cacheBorrowers) \in readSeen

\* C27: the system only reads the ledger: from New() on, no refresh, no scan
\* cycle and no getAssets call has sent a transaction.
C27_NoTransactionSent ==
    /\ transactions = <<>>
    /\ \A i \in 1..Len(queries) :
          queries[i].method \in {"BorrowBalanceStored", "BalanceOfUnderlying"}

C27_Witness ==
    /\ newPc = "done"
    /\ commits = 2
    /\ scanPc = "idle" /\ scanErr = "nil"
    /\ Len(resolved) = 2
    /\ Len(queries) = 2
    /\ transactions = <<>>

\* C28: when a batch result of a scan fails to decode, the cycle ends with an
\* error, prints no underwater account and makes no getAssets call, also not
\* for the accounts at earlier positions that were already classified as
\* underwater.
C28_DecodeFailureAbortsCycle ==
    (\E i \in 1..Len(resp) : ~resp[i].ok)
    => /\ scanPc = "idle"
       /\ scanErr = "error"
       /\ resolved = <<>>
       /\ queries = <<>>
       /\ lines = <<>>
       /\ ~crashed

C28_Witness ==
    /\ scanPc = "idle" /\ scanErr = "error"
    /\ Len(resp) = 2
    /\ resp[1].ok /\ resp[1].cErr = 0 /\ resp[1].liquidity < resp[1].shortfall
    /\ ~resp[2].ok
    /\ Len(underwaterAccounts) = 1
    /\ resolved = <<>>

\* C29: within a scan cycle getAssets is called only once the whole batch is
\* classified and ranked, once for each underwater account, in ranked order
\* (largest shortfall first), and with the market list the account had in
\* the snapshot the cycle read at its start.
C29_ResolveAfterRankingInOrder ==
    resolved # <<>>
    => /\ scanPc \in {"resolving", "idle"}
       /\ Classified /\ Len(resp) = Len(borrowers)
       /\ \A i \in 1..Len(resp) : Underwater(i) <=> IsEmitted(i)
       /\ Len(underwaterAccounts) =
          Cardinality({i \in 1..Len(resp) : Underwater(i)})
       /\ SortedDescending(underwaterAccounts)
       /\ Len(resolved) <= Len(underwaterAccounts)
       /\ \A k \in 1..Len(resolved) : resolved[k] = underwaterAccounts[k]
       /\ scanPc = "resolving" => resolveIdx = Len(resolved) + 1
       /\ scanPc = "idle"
          => scanErr = "nil" /\ Len(resolved) = Len(underwaterAccounts)
       /\ \A k \in 1..Len(resolved) :
             /\ \E j \in 1..Len(borrowers) :
                   /\ borrowers[j].Address = resolved[k].Address
                   /\ borrowers[j].Assets = resolved[k].Assets
             /\ \A p \in 1..Len(QueriesOf(k)) :
                   /\ QueriesOf(k)[p].account = resolved[k].Address
                   /\ QueriesOf(k)[p].market =
                      Deref(assetHeap, resolved[k].Assets)[p]
             /\ Cardinality(readSeen) = 1
                => \E v \in readSeen : \E j \in 1..Len(v) :
                      /\ v[j].Address = resolved[k].Address
                      /\ v[j].Markets = Deref(assetHeap, resolved[k].Assets)

C29_Witness ==
    /\ scanPc = "idle" /\ scanErr = "nil" /\ ~crashed
    /\ Len(resolved) = 2
    /\ resolved[1].Shortfall = 2 /\ resolved[2].Shortfall = 1
    /\ borrowers[1].Address = resolved[2].Address
    /\ Len(QueriesOf(1)) = 1
    /\ Cardinality(readSeen) = 1
    /\ commits = 2
    /\ View(assetHeap, cacheBorrowers) \notin readSeen

\* C30: Read() never indexes past the end of its result: the scanning
\* process does not crash in the copy loop, also when a refresh commits a
\* longer snapshot between the sizing of the result and the copy.
C30_ReadNeverPanics ==
    ~(crashed /\ scanPc = "rlocked" /\ readLen < Len(cacheBorrowers))

\* The run() invocations that have started and not returned.
InFlight == IF runPc = "idle" THEN {} ELSE {runCount}

\* C31: at most one refresh is in flight: a run() starts only when the one
\* before it has returned, be it the priming run or one started by a tick,
\* and a commit is made by the run() started last, so that commits come in
\* the order in which the refreshes started.
C31_OneRefreshInFlight ==
    [][/\ Cardinality(InFlight) <= 1
       /\ runCount' # runCount
          => /\ runCount' = runCount + 1
             /\ InFlight = {} /\ InFlight' = {runCount'}
             /\ runCount > 0 => runErr \in {"nil", "error"}
             /\ ~lockWriter /\ runBorrowers = <<>> /\ newBorrowers = <<>>
       /\ commits' # commits
          => /\ commits' = commits + 1
             /\ InFlight = {runCount} /\ InFlight' = {}
             /\ runCount' = runCount
             /\ commits' <= runCount]_vars

C31_Witness ==
    /\ newPc = "done"
    /\ runCount = 2 /\ commits = 2
    /\ runPc = "idle" /\ runErr = "nil"
    /\ InFlight = {}

\* C32: at most one scan cycle is in progress: ShortfallCheck is started,
\* by the timer loop or for a header, only when the cycle before it has
\* returned, and a header that arrives while a cycle runs starts nothing
\* until that cycle is over.
C32_OneScanInProgress ==
    [][/\ (scanPc' = "sized" /\ (scanPc # "sized" \/ headers' # headers))
          => /\ scanPc = "idle"
             /\ lockReaders = 0
             /\ resolved' = <<>> /\ borrowers' = <<>> /\ resp' = <<>>
       /\ headers' # headers => scanPc = "idle" /\ scanPc' = "sized"
       /\ (sub.state = "live" /\ sub.next <= height /\ scanPc # "idle")
          => ~ENABLED ProcessBlock]_vars

C32_Witness ==
    /\ sub.state = "live"
    /\ headers = <<1>>
    /\ height = 2 /\ sub.next = 2
    /\ scanPc = "resolving"
    /\ ~crashed

\* C33: scanning stays live after a subscription error: when the
\* subscription has reported an error, the loop is back in its select and a
\* block newer than the error is there, a scan cycle can start for it.
C33_ScanningLiveAfterSubscriptionError ==
    (/\ sub.state = "dead"
     /\ height > sub.at /\ sub.next > sub.at
     /\ scanPc = "idle" /\ ~crashed)
    => ENABLED ProcessBlock

\* C34: getAssets finds a contract for every market of an underwater
\* account's list, also for one that was not listed at start-up, so the
\* getAssets loop does not end in a crash of the process.
C34_ResolveFindsEveryMarket ==
    \A k \in 1..Len(resolved) :
        LET assets == Deref(assetHeap, resolved[k].Assets)
        IN  (\E x \in 1..Len(assets) : assets[x] \notin lendMarkets)
            => ~(crashed /\ k = Len(resolved))

\* C35: a refresh commits only when the batch had one result for each
\* fetched borrower: the snapshot never holds a placeholder entry (zero
\* address, no markets) left by a batch that was too short, and a batch
\* that was too long makes the refresh fail with an error, not the process.
C35_CommitNeedsOneResultPerBorrower ==
    /\ \A i \in 1..Len(cacheBorrowers) :
          cacheBorrowers[i].Address # ZeroAddress
    /\ ~crashed

\* C36: the underwater list of a scan is a sub-selection of the snapshot the
\* scan read: its entries are those of distinct positions of the Read()
\* result whose result has error code 0 and liquidity below shortfall, there
\* are as many of them as there are such positions, and every reported
\* address is an address of the snapshot.
C36_UnderwaterListIsSubSelection ==
    Classified
    => LET positions == {i \in 1..Len(resp) : Underwater(i)}
           n == Len(underwaterAccounts)
       IN  /\ Len(resp) = Len(borrowers)
           /\ n = Cardinality(positions)
           /\ \E f \in [1..n -> positions] :
                 /\ \A k, l \in 1..n : f[k] = f[l] => k = l
                 /\ \A k \in 1..n : underwaterAccounts[k] = Emitted(f[k])
           /\ Cardinality(readSeen) = 1
              => \A k \in 1..n :
                    \E v \in readSeen : \E j \in 1..Len(v) :
                        v[j].Address = underwaterAccounts[k].Address

C36_Witness ==
    /\ Classified
    /\ scanPc = "idle" /\ scanErr = "nil"
    /\ Len(borrowers) = 2
    /\ resp[1].cErr = 1 /\ resp[1].liquidity < resp[1].shortfall
    /\ Underwater(2)
    /\ Len(underwaterAccounts) = 1
    /\ underwaterAccounts[1].Address = cacheBorrowers[2].Address
    /\ readSeen = {View(assetHeap, cacheBorrowers)}

====
